---------------------------- MODULE Spec2Model ----------------------------
(***************************************************************************)
(* A model of the `syscalls` crate: the errno translation of a raw result  *)
(* word (src/src/errno/mod.rs), the validated syscall identity Sysno       *)
(* generated by syscall_enum! (src/src/arch/macros.rs), the bit-packed     *)
(* SysnoSet (src/src/set.rs), the SysnoMap built on it (src/src/map.rs),   *)
(* the syscall0 .. syscall6 / syscall wrappers (src/src/lib.rs), the      *)
(* argument bundle SyscallArgs (src/src/args6.rs), SyscallRet              *)
(* (src/src/args.rs, src/src/helper.rs) and the MIPS and x86 trampolines   *)
(* (src/src/syscall/mips.rs, src/src/syscall/x86.rs).                      *)
(*                                                                         *)
(* Target: a 64-bit architecture (x86_64), so usize has 64 bits; the MIPS  *)
(* and x86 trampolines are for their 32-bit targets.                       *)
(*                                                                         *)
(* Representation of machine integers.  TLC's integers have 32 bits, so a  *)
(* usize that takes part in arithmetic or comparison (a raw result word,   *)
(* the argument of Sysno::new) is a sequence of four 16-bit limbs, most    *)
(* significant first; a u32 is a sequence of two limbs; an i32 is a TLA+   *)
(* integer in -2^31 .. 2^31-1.  A usize that is only used as a bit vector  *)
(* (a word of SysnoSet.data) is the set of the positions of its 1 bits,    *)
(* a subset of 0 .. 63.  Option<T> is a sequence: <<>> for None and <<v>>  *)
(* for Some(v).  A Sysno is its discriminant (its id).                     *)
(***************************************************************************)
EXTENDS Integers, Sequences, FiniteSets, TLC

VARIABLES
    ALL,      \* Sysno::ALL: the syscall table, the ids in the enum's order
    raw,      \* errno: the raw result word handed to Errno::from_ret
    ret,      \* errno: what Errno::from_ret returned for raw (<<>> before the call)
    valid,    \* errno: the last call of Errno::is_valid: <<[code, ret]>>
    call,     \* Sysno: the last call of new/next/from: [op, arg, ret]
    walk,     \* Sysno: the iterator Sysno::iter() returned: [active, nxt, out, done]
    set,      \* SysnoSet: the data words of the set under test
    members,  \* SysnoSet: the syscalls inserted and not since removed or cleared
    last_op,  \* SysnoSet: the last mutating call: [op, x, ret, pre, cnt0]
    prev_op,  \* SysnoSet: the mutating call before it: [op, x]
    iter,     \* SysnoSet: the SysnoSetIter over set: [active, it, out, done, panicked]
    other,    \* SysnoSet: the data words of a second set, the operand
    result,   \* SysnoSet: the last set-algebra call: [op, data]
    map,      \* SysnoMap: the map under test: [is_set, data]
    entries,  \* SysnoMap: for each syscall, the value of its latest insert
              \*   (as since written through get_mut) unless removed or cleared
    ledger,   \* SysnoMap: the values inserted so far and how often each has
              \*   been handed back or dropped: [inserted, disposed]
    map_op,   \* SysnoMap: the last call on the map: [op, k, ret, ...]
    map_iter, \* SysnoMap: the SysnoMapIter / SysnoMapValues over map
    kernel,   \* syscall: how the kernel answers the traps of the run
    traps,    \* syscall: the traps issued so far: [n, args] each
    sys       \* syscall: the last wrapper call: [op, nr, args, ret]

vars == <<ALL, raw, ret, valid, call, walk, set, members, last_op, prev_op, iter,
          other, result, map, entries, ledger, map_op, map_iter,
          kernel, traps, sys>>
errnoVars == <<raw, ret, valid>>
sysnoVars == <<call, walk>>
setVars == <<set, members, last_op, prev_op, iter>>
algebraVars == <<other, result>>
mapVars == <<map, entries, ledger, map_op, map_iter>>
trapVars == <<kernel, traps, sys>>

\* The values of the variables of a component nothing has been done with.
CallIdle == [op |-> "none"]
WalkIdle == [active |-> FALSE]
NoOp == [op |-> "none", x |-> -1]
IterIdle == [active |-> FALSE]
NoResult == [op |-> "none"]

ErrnoIdle == raw = <<0, 0, 0, 0>> /\ ret = <<>> /\ valid = <<>>

SysnoIdle == call = CallIdle /\ walk = WalkIdle

SetIdle ==
    /\ set = <<{}>> /\ members = {}
    /\ last_op = NoOp /\ prev_op = NoOp
    /\ iter = IterIdle

AlgebraIdle == other = <<{}>> /\ result = NoResult

MapIdle ==
    /\ map = [is_set |-> <<{}>>, data |-> <<>>]
    /\ entries = <<>>
    /\ ledger = [inserted |-> 0, disposed |-> <<>>]
    /\ map_op = NoOp
    /\ map_iter = IterIdle

TrapIdle ==
    /\ kernel = [kind |-> "none"]
    /\ traps = <<>>
    /\ sys = CallIdle

-----------------------------------------------------------------------------
(* Machine integers                                                        *)

LimbBase == 2^16
LimbMax == LimbBase - 1

\* usize::MAX on the 64-bit target.
UsizeMax == <<LimbMax, LimbMax, LimbMax, LimbMax>>

\* a > b for two usize values (unsigned comparison, most significant limb first).
UsizeGt(x, y) ==
    \E i \in DOMAIN x : /\ x[i] > y[i]
                    /\ \A j \in 1..(i - 1) : x[j] = y[j]

\* `v as usize` for a non-negative v below 2^31.
UsizeOfNat(v) == <<0, 0, v \div LimbBase, v % LimbBase>>

\* `v as usize` for an isize/i32 v: sign extension to 64 bits.
UsizeOfInt(v) ==
    LET ext == IF v < 0 THEN LimbMax ELSE 0
    IN <<ext, ext, (v \div LimbBase) % LimbBase, v % LimbBase>>

\* `v as usize` for a u32 v = <<hi, lo>>: zero extension.
UsizeOfU32(v) == <<0, 0, v[1], v[2]>>

\* `value as i32` for a usize: the low 32 bits, read as two's complement.
I32OfUsize(value) ==
    LET hi == value[Len(value) - 1]
        lo == value[Len(value)]
    IN IF hi >= LimbBase \div 2
       THEN (hi - LimbBase) * LimbBase + lo
       ELSE hi * LimbBase + lo

\* `v as usize` for an isize v on a target whose usize has the given number
\* of limbs (four on x86_64, two on MIPS): sign extension.
IsizeAsUsize(v, limbs) ==
    [i \in 1..limbs |->
        IF i = limbs THEN v % LimbBase
        ELSE IF i = limbs - 1 THEN (v \div LimbBase) % LimbBase
        ELSE IF v < 0 THEN LimbMax ELSE 0]

-----------------------------------------------------------------------------
(* Errno (src/src/errno/mod.rs)                                            *)

\* The 4096 of `-4096isize as usize` and of is_valid.
MAX_ERRNO == 4096

Ok(v) == [ok |-> TRUE, val |-> v]
Err(e) == [ok |-> FALSE, err |-> e]

\* Errno::new / Errno::into_raw: the code is the wrapped i32 itself.
Errno_new(num) == num
Errno_into_raw(e) == e

\* Errno::is_valid
Errno_is_valid(e) == e < MAX_ERRNO

\* Errno::from_ret with the comparison written `>=`.
from_ret_ge(value) ==
    IF value = UsizeOfInt(-MAX_ERRNO) \/ UsizeGt(value, UsizeOfInt(-MAX_ERRNO))
    THEN Err(Errno_new(-I32OfUsize(value)))
    ELSE Ok(value)

\* Errno::from_ret with the negation of the truncated word left out.
from_ret_no_neg(value) ==
    IF UsizeGt(value, UsizeOfInt(-MAX_ERRNO))
    THEN Err(Errno_new(I32OfUsize(value)))
    ELSE Ok(value)

\* Errno::from_ret
from_ret(value) ==
    IF UsizeGt(value, IsizeAsUsize(-MAX_ERRNO, Len(value)))
    THEN Err(Errno_new(-I32OfUsize(value)))
    ELSE Ok(value)

\* The raw result words the model hands to from_ret: every combination of
\* limbs around 0, the sign bit and the all-ones pattern, the low limb around
\* the 4096 boundary.
HighLimbs == {0, 1, LimbBase \div 2 - 1, LimbBase \div 2, LimbMax - 1, LimbMax}
LowLimbs == {0, 1, 2, LimbBase - MAX_ERRNO - 1, LimbBase - MAX_ERRNO,
             LimbBase - MAX_ERRNO + 1, LimbMax - 1, LimbMax}
RawWords == {<<a3, a2, a1, a0>> : a3 \in HighLimbs, a2 \in HighLimbs,
                                  a1 \in HighLimbs, a0 \in LowLimbs}

\* A syscall returned the word `raw` and it is translated.
FromRet ==
    /\ ret = <<>>
    /\ ret' = <<from_ret(raw)>>
    /\ UNCHANGED <<ALL, raw, valid, sysnoVars, setVars, algebraVars, mapVars,
                   trapVars>>

\* The i32 codes Errno::new is called with: the ends of the i32 range and
\* the codes around 0 and around 4096.
Codes == {-2147483647 - 1, -MAX_ERRNO, -1, 0, 1, MAX_ERRNO - 1, MAX_ERRNO,
          MAX_ERRNO + 1, 2147483647}

\* Errno::new(num).is_valid()
IsValid(num) ==
    /\ valid = <<>>
    /\ valid' = <<[code |-> num, ret |-> Errno_is_valid(Errno_new(num))]>>
    /\ UNCHANGED <<ALL, raw, ret, sysnoVars, setVars, algebraVars, mapVars,
                   trapVars>>

InitErrno ==
    /\ ALL = <<0>>
    /\ raw \in RawWords
    /\ ret = <<>>
    /\ valid = <<>>
    /\ SysnoIdle
    /\ SetIdle
    /\ AlgebraIdle
    /\ MapIdle
    /\ TrapIdle

NextErrno ==
    \/ FromRet
    \/ \E num \in Codes : IsValid(num)

SpecErrno == InitErrno /\ [][NextErrno]_vars

\* The top n values of the usize range, [usize::MAX - (n-1), usize::MAX], for
\* 1 <= n <= 2^16: the words whose signed reading lies in [-n, -1].
InTop(value, n) ==
    /\ value[1] = LimbMax /\ value[2] = LimbMax /\ value[3] = LimbMax
    /\ value[4] >= LimbBase - n

\* C1 as stated: from_ret(raw) is Err iff raw is one of the top 4096 values of
\* the word range, [WordMax-4095, WordMax].
C1_ErrIffTop4096 ==
    ret # <<>> => (~ret[1].ok <=> InTop(raw, MAX_ERRNO))

\* C1, amended: from_ret(raw) is Err iff raw is one of the top 4095 values of
\* the word range, [WordMax-4094, WordMax] (signed [-4095, -1]); every other
\* raw word, WordMax-4095 (signed -4096) included, is Ok.
C1_ErrIffTop4095 ==
    ret # <<>> => (~ret[1].ok <=> InTop(raw, MAX_ERRNO - 1))

\* from_ret was called on the lowest word of the window and returned Err.
C1_Witness ==
    /\ ret # <<>>
    /\ ~ret[1].ok
    /\ raw = <<LimbMax, LimbMax, LimbMax, LimbBase - (MAX_ERRNO - 1)>>

\* C2: for a raw word in the errno window (signed [-4095, -1]) from_ret
\* returns Err(Errno::new(-raw)): the code is 2^64 - raw, a positive errno in
\* 1..=4095, the truncation to i32 changing nothing; for a raw word outside
\* the window it returns Ok(raw), the word unchanged.
C2_ErrCodeOrOkUnchanged ==
    ret # <<>> =>
        IF InTop(raw, MAX_ERRNO - 1)
        THEN /\ ~ret[1].ok
             /\ Errno_into_raw(ret[1].err) = LimbBase - raw[4]
             /\ Errno_into_raw(ret[1].err) \in 1..(MAX_ERRNO - 1)
        ELSE /\ ret[1].ok
             /\ ret[1].val = raw

\* from_ret translated the word -4095 into the largest errno code.
C2_Witness ==
    /\ ret # <<>>
    /\ ~ret[1].ok
    /\ Errno_into_raw(ret[1].err) = MAX_ERRNO - 1

\* C22: Errno::is_valid() returns true exactly for the error codes that are
\* non-negative and below 4096, and false for every other i32 code (negative
\* codes and codes >= 4096); every Errno produced by Errno::from_ret is
\* valid.
C22_ValidIffInRange ==
    /\ valid # <<>> =>
          (valid[1].ret <=> (0 <= valid[1].code /\ valid[1].code < MAX_ERRNO))
    /\ (ret # <<>> /\ ~ret[1].ok) => Errno_is_valid(ret[1].err)

-----------------------------------------------------------------------------
(* Sysno, as syscall_enum! generates it (src/src/arch/macros.rs)           *)

\* usize::BITS on the 64-bit target (SysnoSet::WORD_WIDTH).
WORD_WIDTH == 64

\* The most entries a syscall table of the model has.
MaxCount == 3

\* The ids the tables of the model draw from: the start of the range, both
\* sides of the first word boundary of a SysnoSet, and an id in a third word.
IdUniverse == {0, 1, 2, WORD_WIDTH - 1, WORD_WIDTH, WORD_WIDTH + 1,
               2 * WORD_WIDTH + 2}

Min(S) == CHOOSE x \in S : \A y \in S : x <= y

RECURSIVE SortedSeq(_)
SortedSeq(S) == IF S = {} THEN <<>>
                ELSE <<Min(S)>> \o SortedSeq(S \ {Min(S)})

\* The tables the generator can emit: sorted by id (it sorts before writing),
\* at least one entry, holes allowed.
Tables == {SortedSeq(S) : S \in {T \in SUBSET IdUniverse :
                                   Cardinality(T) \in 1..MaxCount}}

Range(f) == {f[i] : i \in DOMAIN f}

\* Sysno::id: the discriminant (a Sysno is modelled by it).
Sysno_id(sysno) == sysno

\* Sysno::first: $first_syscall, the first entry of the enum.
Sysno_first == ALL[1]

\* Sysno::last: the entry named by LAST, the last one the generator wrote.
Sysno_last == ALL[Len(ALL)]

\* Sysno::count
Sysno_count == Len(ALL)

\* Sysno::table_size
Sysno_table_size == (Sysno_id(Sysno_last) - Sysno_id(Sysno_first)) + 1

\* Sysno::new with a range check in place of the match on the ids.
Sysno_new_range(id) ==
    IF /\ id[1] = 0 /\ id[2] = 0 /\ id[3] = 0
       /\ id[4] >= Sysno_id(Sysno_first) /\ id[4] <= Sysno_id(Sysno_last)
    THEN <<id[4]>>
    ELSE <<>>

\* Sysno::new: the match with one arm per entry of the enum.
Sysno_new(id) ==
    IF \E i \in DOMAIN ALL : id = UsizeOfNat(ALL[i])
    THEN <<ALL[CHOOSE i \in DOMAIN ALL : id = UsizeOfNat(ALL[i])]>>
    ELSE <<>>

\* The while loop of Sysno::next, entered with next_id: it returns at the
\* first next_id below last().id() that Sysno::new accepts, and falls through
\* when there is none.
next_loop(next_id) ==
    LET found == {n \in next_id..(Sysno_id(Sysno_last) - 1) :
                     Sysno_new(UsizeOfInt(n)) # <<>>}
    IN IF found # {} THEN Sysno_new(UsizeOfInt(Min(found))) ELSE <<>>

\* Sysno::next
Sysno_next(sysno) ==
    IF sysno = Sysno_last
    THEN <<>>
    ELSE next_loop(Sysno_id(sysno) + 1)

\* What a call that may panic did.
Returned(v) == [panic |-> FALSE, val |-> v]
Panicked == [panic |-> TRUE]

\* From<u32> for Sysno
From_u32(id) ==
    IF Sysno_new(UsizeOfU32(id)) # <<>>
    THEN Returned(Sysno_new(UsizeOfU32(id))[1])
    ELSE Panicked

\* From<i32> for Sysno converting the magnitude of id (2^31, the magnitude of
\* i32::MIN, is no id of a table).
From_i32_abs(id) ==
    LET mag == IF id < -2147483647 THEN -1 ELSE IF id < 0 THEN -id ELSE id
    IN IF Sysno_new(UsizeOfInt(mag)) # <<>>
       THEN Returned(Sysno_new(UsizeOfInt(mag))[1])
       ELSE Panicked

\* From<i32> for Sysno
From_i32(id) ==
    IF Sysno_new(UsizeOfInt(id)) # <<>>
    THEN Returned(Sysno_new(UsizeOfInt(id))[1])
    ELSE Panicked

\* The ids the calls of the model are made with: every id of the universe
\* and its neighbours.
ProbeIds == {n \in 0..(2 * WORD_WIDTH + 4) :
                \E u \in IdUniverse : n \in (u - 1)..(u + 1)}

\* The usize arguments of Sysno::new: the probe ids, and words that agree with
\* a probe id in their low limb only.
NewArgs == {UsizeOfNat(n) : n \in ProbeIds}
           \cup {<<a3, 0, a1, n>> : a3 \in {0, 1, LimbMax},
                                   a1 \in {0, 1, LimbMax}, n \in IdUniverse}
           \cup {UsizeMax, UsizeOfNat(1024)}

\* The u32 arguments of Sysno::from.
U32Args == {<<hi, n>> : hi \in {0, 1, LimbBase \div 2, LimbMax}, n \in ProbeIds}

\* The i32 arguments of Sysno::from.
I32Args == ProbeIds
           \cup {-n : n \in IdUniverse}
           \cup {LimbBase + n : n \in IdUniverse}
           \cup {n - LimbBase : n \in IdUniverse}
           \cup {-2147483647 - 1, 2147483647}

CallNew(id) ==
    /\ walk = WalkIdle
    /\ call' = [op |-> "new", arg |-> id, ret |-> Sysno_new(id)]
    /\ UNCHANGED <<ALL, errnoVars, walk, setVars, algebraVars, mapVars,
                   trapVars>>

CallNext(sysno) ==
    /\ walk = WalkIdle
    /\ call' = [op |-> "next", arg |-> sysno, ret |-> Sysno_next(sysno)]
    /\ UNCHANGED <<ALL, errnoVars, walk, setVars, algebraVars, mapVars,
                   trapVars>>

CallFromU32(id) ==
    /\ walk = WalkIdle
    /\ call' = [op |-> "from_u32", arg |-> id, ret |-> From_u32(id)]
    /\ UNCHANGED <<ALL, errnoVars, walk, setVars, algebraVars, mapVars,
                   trapVars>>

CallFromI32(id) ==
    /\ walk = WalkIdle
    /\ call' = [op |-> "from_i32", arg |-> id, ret |-> From_i32(id)]
    /\ UNCHANGED <<ALL, errnoVars, walk, setVars, algebraVars, mapVars,
                   trapVars>>

\* Sysno::iter: core::iter::successors(Some(Sysno::first()), |x| x.next())
SysnoIter ==
    /\ walk = WalkIdle
    /\ walk' = [active |-> TRUE, nxt |-> <<Sysno_first>>, out |-> <<>>,
                done |-> FALSE]
    /\ call' = CallIdle
    /\ UNCHANGED <<ALL, errnoVars, setVars, algebraVars, mapVars,
                   trapVars>>

\* Successors::next: take the stored item, store its successor, yield it.
SysnoIterNext ==
    /\ walk.active /\ ~walk.done
    /\ IF walk.nxt = <<>>
       THEN walk' = [walk EXCEPT !.done = TRUE]
       ELSE walk' = [walk EXCEPT !.nxt = Sysno_next(walk.nxt[1]),
                                 !.out = Append(walk.out, walk.nxt[1])]
    /\ UNCHANGED <<ALL, errnoVars, call, setVars, algebraVars, mapVars,
                   trapVars>>

\* The iterator is dropped.
SysnoIterDrop ==
    /\ walk.active
    /\ walk' = WalkIdle
    /\ UNCHANGED <<ALL, errnoVars, call, setVars, algebraVars, mapVars,
                   trapVars>>

InitSysno ==
    /\ ALL \in Tables
    /\ ErrnoIdle
    /\ SysnoIdle
    /\ SetIdle
    /\ AlgebraIdle
    /\ MapIdle
    /\ TrapIdle

NextSysno ==
    \/ \E id \in NewArgs : CallNew(id)
    \/ \E sysno \in Range(ALL) : CallNext(sysno)
    \/ \E id \in U32Args : CallFromU32(id)
    \/ \E id \in I32Args : CallFromI32(id)
    \/ SysnoIter
    \/ SysnoIterNext
    \/ SysnoIterDrop

SpecSysno == InitSysno /\ [][NextSysno]_vars

\* The valid ids of the table.
ValidIds == Range(ALL)

\* The number a usize holds when it is a non-negative i32 (what an enum
\* discriminant can be), and -1 for every larger word.
NatOfUsize(w) ==
    IF w[1] = 0 /\ w[2] = 0 /\ w[3] < LimbBase \div 2
    THEN w[3] * LimbBase + w[4]
    ELSE -1

\* C3: Sysno::new(n) is Some(s) with s.id() == n exactly when n is the id of
\* an entry of the table; it is None for every hole inside
\* [first().id(), last().id()] and for every n outside that range.
C3_NewSomeIffValid ==
    call.op = "new" =>
        IF NatOfUsize(call.arg) \in ValidIds
        THEN /\ call.ret # <<>>
             /\ Sysno_id(call.ret[1]) = NatOfUsize(call.arg)
        ELSE call.ret = <<>>

\* Sysno::new was called on a hole inside the range and returned None.
C3_Witness ==
    /\ call.op = "new"
    /\ NatOfUsize(call.arg) > Sysno_id(Sysno_first)
    /\ NatOfUsize(call.arg) < Sysno_id(Sysno_last)
    /\ NatOfUsize(call.arg) \notin ValidIds
    /\ call.ret = <<>>

\* C4: for a valid syscall s other than last(), s.next() is Some(t), t the
\* valid syscall of the smallest id above s.id(); next() is None only when s
\* is last().
C4_NextIsSuccessor ==
    call.op = "next" =>
        IF call.arg = Sysno_last
        THEN call.ret = <<>>
        ELSE call.ret = <<Min({v \in ValidIds : v > Sysno_id(call.arg)})>>

\* C5: Sysno::iter() yields a strictly increasing sequence that starts at
\* first(), ends at last() and holds exactly count() items, every valid
\* syscall once: when the iterator has returned None it has yielded the table.
C5_IterYieldsTable ==
    (walk.active /\ walk.done) =>
        /\ Len(walk.out) = Sysno_count
        /\ walk.out = ALL
        /\ walk.out[Len(walk.out)] = Sysno_last

\* The value an i32 or u32 argument of Sysno::from stands for; -1 for a u32
\* above i32::MAX, which no enum discriminant equals.
FromArgValue ==
    IF call.op = "from_i32" THEN call.arg
    ELSE IF call.arg[1] < LimbBase \div 2
         THEN call.arg[1] * LimbBase + call.arg[2]
         ELSE -1

\* C6: Sysno::from(id), for an i32 or a u32, returns what Sysno::new(id)
\* .unwrap() returns for every valid id, and panics for every hole, every
\* out-of-range id and every negative i32.
C6_FromReturnsOrPanics ==
    call.op \in {"from_u32", "from_i32"} =>
        IF FromArgValue \in ValidIds
        THEN /\ ~call.ret.panic
             /\ <<call.ret.val>> = Sysno_new(UsizeOfNat(FromArgValue))
             /\ Sysno_id(call.ret.val) = FromArgValue
        ELSE call.ret.panic

\* Sysno::from was called on a negative i32 whose magnitude is a valid id,
\* and panicked.
C6_Witness ==
    /\ call.op = "from_i32"
    /\ call.arg \in {-n : n \in ValidIds \ {0}}
    /\ call.ret.panic

-----------------------------------------------------------------------------
(* SysnoSet (src/src/set.rs)                                               *)

\* The bit positions of a usize word.
Bits == 0..(WORD_WIDTH - 1)

\* Bitwise operations on a word, given as the set of its 1 bits.
BitOr(x, y) == x \cup y
BitAnd(x, y) == x \cap y
BitXor(x, y) == (x \ y) \cup (y \ x)
BitNot(x) == Bits \ x

\* usize::trailing_zeros, usize::count_ones, usize::rotate_left
trailing_zeros(word) == IF word = {} THEN WORD_WIDTH ELSE Min(word)
count_ones(word) == Cardinality(word)
rotate_left(word, n) == {(p + n) % WORD_WIDTH : p \in word}

\* bits_per::<usize>()
bits_per == WORD_WIDTH

\* words::<usize>(bits)
words(bits) ==
    LET width == bits_per
    IN IF width = 0 THEN 0
       ELSE bits \div width + (IF bits % width # 0 THEN 1 ELSE 0)

\* SysnoSet::get_idx_mask with every mask in word 0.
get_idx_mask_word_zero(sysno) ==
    LET bit == Sysno_id(sysno) - Sysno_id(Sysno_first)
    IN <<0, {bit % WORD_WIDTH}>>

\* SysnoSet::get_idx_mask: <<index into data (from 0), mask>>
get_idx_mask(sysno) ==
    LET bit == Sysno_id(sysno) - Sysno_id(Sysno_first)
    IN <<bit \div WORD_WIDTH, {bit % WORD_WIDTH}>>

\* self.data[idx], idx counting from 0 as in the code.
At(data, idx) == data[idx + 1]
Put(data, idx, word) == [data EXCEPT ![idx + 1] = word]

\* SysnoSet::empty
SysnoSet_empty == [i \in 1..words(Sysno_table_size) |-> {}]

\* SysnoSet::new: the while loop over syscalls[i..].
RECURSIVE new_loop(_, _, _)
new_loop(data, syscalls, i) ==
    IF i <= Len(syscalls)
    THEN LET im == get_idx_mask(syscalls[i])
         IN new_loop(Put(data, im[1], BitOr(At(data, im[1]), im[2])),
                     syscalls, i + 1)
    ELSE data

\* SysnoSet::new with the loop starting at `i = 1`, past the first syscall.
SysnoSet_new_from_second(syscalls) == new_loop(SysnoSet_empty, syscalls, 2)

SysnoSet_new(syscalls) == new_loop(SysnoSet_empty, syscalls, 1)

\* SysnoSet::all: the data of SysnoSet::ALL = SysnoSet::new(Sysno::ALL).
SysnoSet_all == SysnoSet_new(ALL)

\* SysnoSet::contains
SysnoSet_contains(data, sysno) ==
    LET im == get_idx_mask(sysno)
    IN BitAnd(At(data, im[1]), im[2]) # {}

\* SysnoSet::is_empty
SysnoSet_is_empty(data) == \A i \in DOMAIN data : data[i] = {}

\* SysnoSet::clear
SysnoSet_clear(data) == [i \in DOMAIN data |-> {}]

\* SysnoSet::count: the fold over the words.
RECURSIVE count_fold(_, _, _)
count_fold(data, i, acc) ==
    IF i <= Len(data) THEN count_fold(data, i + 1, acc + count_ones(data[i]))
    ELSE acc

\* SysnoSet::count adding one per non-zero word instead of count_ones.
SysnoSet_count_words(data) == Cardinality({i \in DOMAIN data : data[i] # {}})

SysnoSet_count(data) == count_fold(data, 1, 0)

\* SysnoSet::insert: the new data and the returned bool.
SysnoSet_insert(data, sysno) ==
    LET im == get_idx_mask(sysno)
        old_value == BitAnd(At(data, im[1]), im[2])
    IN [data |-> Put(data, im[1], BitOr(At(data, im[1]), im[2])),
        ret |-> old_value = {}]

\* SysnoSet::remove with `= 0` in place of `&= !mask`.
SysnoSet_remove_word(data, sysno) ==
    LET im == get_idx_mask(sysno)
        old_value == BitAnd(At(data, im[1]), im[2])
    IN [data |-> Put(data, im[1], {}),
        ret |-> old_value # {}]

\* SysnoSet::remove with `&= mask` in place of `&= !mask`.
SysnoSet_remove_keep(data, sysno) ==
    LET im == get_idx_mask(sysno)
        old_value == BitAnd(At(data, im[1]), im[2])
    IN [data |-> Put(data, im[1], BitAnd(At(data, im[1]), im[2])),
        ret |-> old_value # {}]

\* SysnoSet::remove: the new data and the returned bool.
SysnoSet_remove(data, sysno) ==
    LET im == get_idx_mask(sysno)
        old_value == BitAnd(At(data, im[1]), im[2])
    IN [data |-> Put(data, im[1], BitAnd(At(data, im[1]), BitNot(im[2]))),
        ret |-> old_value # {}]

\* SysnoSet::union / intersection / difference / symmetric_difference: the
\* while loop over every index of self.data.
SysnoSet_union(self, rhs) ==
    [i \in DOMAIN self |-> BitOr(self[i], rhs[i])]

SysnoSet_intersection(self, rhs) ==
    [i \in DOMAIN self |-> BitAnd(self[i], rhs[i])]

\* SysnoSet::difference with `^=` in place of `&= !`.
SysnoSet_difference_xor(self, rhs) ==
    [i \in DOMAIN self |-> BitXor(self[i], rhs[i])]

SysnoSet_difference(self, rhs) ==
    [i \in DOMAIN self |-> BitAnd(self[i], BitNot(rhs[i]))]

SysnoSet_symmetric_difference(self, rhs) ==
    [i \in DOMAIN self |-> BitXor(self[i], rhs[i])]

\* BitOrAssign<&Self> with `*left |= !right`.
SysnoSet_bitor_assign_not(self, rhs) ==
    [i \in DOMAIN self |-> BitOr(self[i], BitNot(rhs[i]))]

\* BitOrAssign<&Self> for SysnoSet: the loop over the zipped words.
SysnoSet_bitor_assign(self, rhs) ==
    [i \in DOMAIN self |->
        IF i \in DOMAIN rhs THEN BitOr(self[i], rhs[i]) ELSE self[i]]

\* Extend<Sysno> for SysnoSet: insert for each item.
RECURSIVE SysnoSet_extend(_, _)
SysnoSet_extend(data, syscalls) ==
    IF syscalls = <<>> THEN data
    ELSE SysnoSet_extend(SysnoSet_insert(data, Head(syscalls)).data,
                         Tail(syscalls))

\* NonZeroUsizeIter::new: the slice iterator at the first word, count 0.
NonZeroUsizeIter_new == [pos |-> 1, count |-> 0]

\* NonZeroUsizeIter::next over the words of data: the iterator afterwards and
\* the Option it returns.
RECURSIVE NonZeroUsizeIter_next(_, _)
NonZeroUsizeIter_next(data, nz) ==
    IF nz.pos <= Len(data)
    THEN LET stepped == [pos |-> nz.pos + 1, count |-> nz.count + 1]
         IN IF data[nz.pos] # {}
            THEN [iter |-> stepped, ret |-> <<data[nz.pos]>>]
            ELSE NonZeroUsizeIter_next(data, stepped)
    ELSE [iter |-> nz, ret |-> <<>>]

\* SysnoSetIter::new
SysnoSetIter_new(data) ==
    LET first_word == NonZeroUsizeIter_next(data, NonZeroUsizeIter_new)
    IN [iter |-> first_word.iter, current |-> first_word.ret]

\* `n as u32` for a small non-negative n.
U32OfNat(n) == <<n \div LimbBase, n % LimbBase>>

\* The MASK of SysnoSetIter::next: !1usize.
MASK == BitNot({0})

\* SysnoSetIter::next reading the index after the iterator has advanced.
SysnoSetIter_next_late_index(data, it) ==
    IF it.current # <<>>
    THEN LET word == it.current[1]
             bit == trailing_zeros(word)
             next_word == BitAnd(word, rotate_left(MASK, bit))
             advanced == NonZeroUsizeIter_next(data, it.iter)
             after == IF next_word # {}
                      THEN [iter |-> it.iter, current |-> <<next_word>>]
                      ELSE [iter |-> advanced.iter, current |-> advanced.ret]
             index == after.iter.count - 1
             offset == Sysno_id(Sysno_first)
             sysno == index * WORD_WIDTH + bit + offset
         IN [it |-> after, ret |-> <<From_u32(U32OfNat(sysno))>>]
    ELSE [it |-> it, ret |-> <<>>]

\* SysnoSetIter::next: the iterator afterwards and what the call did: <<>> for
\* None, <<r>> with r what Sysno::from returned or that it panicked.  (count is
\* at least 1 whenever current is Some, so wrapping_sub does not wrap.)
SysnoSetIter_next(data, it) ==
    IF it.current # <<>>
    THEN LET word == it.current[1]
             index == it.iter.count - 1
             bit == trailing_zeros(word)
             next_word == BitAnd(word, rotate_left(MASK, bit))
             advanced == NonZeroUsizeIter_next(data, it.iter)
             after == IF next_word # {}
                      THEN [iter |-> it.iter, current |-> <<next_word>>]
                      ELSE [iter |-> advanced.iter, current |-> advanced.ret]
             offset == Sysno_id(Sysno_first)
             sysno == index * WORD_WIDTH + bit + offset
         IN [it |-> after, ret |-> <<From_u32(U32OfNat(sysno))>>]
    ELSE [it |-> it, ret |-> <<>>]

\* set.insert(sysno)
Insert(sysno) ==
    /\ ~iter.active
    /\ set' = SysnoSet_insert(set, sysno).data
    /\ members' = members \cup {sysno}
    /\ last_op' = [op |-> "insert", x |-> sysno,
                   ret |-> SysnoSet_insert(set, sysno).ret,
                   pre |-> sysno \in members, cnt0 |-> SysnoSet_count(set)]
    /\ prev_op' = [op |-> last_op.op, x |-> last_op.x]
    /\ UNCHANGED <<ALL, errnoVars, sysnoVars, iter, algebraVars, mapVars, trapVars>>

\* set.remove(sysno)
Remove(sysno) ==
    /\ ~iter.active
    /\ set' = SysnoSet_remove(set, sysno).data
    /\ members' = members \ {sysno}
    /\ last_op' = [op |-> "remove", x |-> sysno,
                   ret |-> SysnoSet_remove(set, sysno).ret,
                   pre |-> sysno \in members, cnt0 |-> SysnoSet_count(set)]
    /\ prev_op' = [op |-> last_op.op, x |-> last_op.x]
    /\ UNCHANGED <<ALL, errnoVars, sysnoVars, iter, algebraVars, mapVars, trapVars>>

\* set.clear()
Clear ==
    /\ ~iter.active
    /\ set' = SysnoSet_clear(set)
    /\ members' = {}
    /\ last_op' = [op |-> "clear", x |-> -1]
    /\ prev_op' = [op |-> last_op.op, x |-> last_op.x]
    /\ UNCHANGED <<ALL, errnoVars, sysnoVars, iter, algebraVars, mapVars, trapVars>>

\* set.iter(): the set stays borrowed, and so unchanged, until the iterator is
\* dropped.
SetIter ==
    /\ ~iter.active
    /\ iter' = [active |-> TRUE, it |-> SysnoSetIter_new(set), out |-> <<>>,
                done |-> FALSE, panicked |-> FALSE]
    /\ last_op' = NoOp /\ prev_op' = NoOp
    /\ UNCHANGED <<ALL, errnoVars, sysnoVars, set, members, algebraVars, mapVars, trapVars>>

\* One call of SysnoSetIter::next.
SetIterNext ==
    /\ iter.active /\ ~iter.done /\ ~iter.panicked
    /\ LET r == SysnoSetIter_next(set, iter.it)
       IN iter' = IF r.ret = <<>> THEN [iter EXCEPT !.it = r.it, !.done = TRUE]
                  ELSE IF r.ret[1].panic
                       THEN [iter EXCEPT !.it = r.it, !.panicked = TRUE]
                       ELSE [iter EXCEPT !.it = r.it,
                                         !.out = Append(iter.out, r.ret[1].val)]
    /\ UNCHANGED <<ALL, errnoVars, sysnoVars, set, members, last_op, prev_op,
                   algebraVars, mapVars, trapVars>>

\* The iterator is dropped.
SetIterDrop ==
    /\ iter.active
    /\ iter' = IterIdle
    /\ UNCHANGED <<ALL, errnoVars, sysnoVars, set, members, last_op, prev_op,
                   algebraVars, mapVars, trapVars>>

\* A set starts as SysnoSet::empty() or as SysnoSet::all().
InitSet ==
    /\ ALL \in Tables
    /\ ErrnoIdle
    /\ SysnoIdle
    /\ \/ set = SysnoSet_empty /\ members = {}
       \/ set = SysnoSet_all /\ members = Range(ALL)
    /\ last_op = NoOp /\ prev_op = NoOp
    /\ iter = IterIdle
    /\ AlgebraIdle
    /\ MapIdle
    /\ TrapIdle

NextSet ==
    \/ \E sysno \in Range(ALL) : Insert(sysno)
    \/ \E sysno \in Range(ALL) : Remove(sysno)
    \/ Clear
    \/ SetIter
    \/ SetIterNext
    \/ SetIterDrop

SpecSet == InitSet /\ [][NextSet]_vars

\* C7: insert(x) returns true iff x was not contained before, and contains(x)
\* holds afterwards; remove(x) returns true iff x was contained before, and
\* contains(x) is false afterwards; a second insert(x), or a second
\* remove(x), in a row returns false.
C7_InsertRemoveResults ==
    /\ last_op.op = "insert" =>
          /\ last_op.ret <=> ~last_op.pre
          /\ SysnoSet_contains(set, last_op.x)
    /\ last_op.op = "remove" =>
          /\ last_op.ret <=> last_op.pre
          /\ ~SysnoSet_contains(set, last_op.x)
    /\ (last_op.op \in {"insert", "remove"} /\ prev_op = [op |-> last_op.op,
                                                          x |-> last_op.x])
          => ~last_op.ret

\* remove(x) was called twice in a row on a syscall that was in the set, in a
\* word that holds another member.
C7_Witness ==
    /\ last_op.op = "remove" /\ ~last_op.ret
    /\ prev_op = [op |-> "remove", x |-> last_op.x]
    /\ \E y \in members : get_idx_mask(y)[1] = get_idx_mask(last_op.x)[1]

\* C8: after any sequence of insert, remove and clear, count() is the number
\* of distinct syscalls inserted and not since removed or cleared; it grows by
\* one exactly when insert returns true and shrinks by one exactly when remove
\* returns true; is_empty() holds iff count() == 0.
C8_CountTracksMembers ==
    /\ SysnoSet_count(set) = Cardinality(members)
    /\ SysnoSet_is_empty(set) <=> (SysnoSet_count(set) = 0)
    /\ last_op.op = "insert" =>
          SysnoSet_count(set) = last_op.cnt0 + (IF last_op.ret THEN 1 ELSE 0)
    /\ last_op.op = "remove" =>
          SysnoSet_count(set) = last_op.cnt0 - (IF last_op.ret THEN 1 ELSE 0)
    /\ last_op.op = "clear" => SysnoSet_count(set) = 0

\* After inserts and a remove the set holds two syscalls, in different words.
C8_Witness ==
    /\ last_op.op = "remove" /\ last_op.ret
    /\ SysnoSet_count(set) = 2
    /\ \E y, z \in members : get_idx_mask(y)[1] # get_idx_mask(z)[1]

\* Whether a sequence of ids is strictly ascending.
Ascending(seq) == \A i, j \in DOMAIN seq : i < j => seq[i] < seq[j]

\* C10: iterating a SysnoSet yields exactly the syscalls x with contains(x),
\* each once, in strictly ascending id order, across word boundaries; it
\* yields count() items and then None (nothing for an empty set), and never
\* panics on the way.
C10_IterYieldsMembersAscending ==
    iter.active =>
        /\ ~iter.panicked
        /\ Ascending(iter.out)
        /\ \A i \in DOMAIN iter.out :
              /\ iter.out[i] \in ValidIds
              /\ SysnoSet_contains(set, iter.out[i])
        /\ iter.done =>
              /\ Range(iter.out) = {x \in ValidIds : SysnoSet_contains(set, x)}
              /\ Len(iter.out) = SysnoSet_count(set)

\* An iteration ran to its end over a set with members in two words, the last
\* bit of a word among them.
C10_Witness ==
    /\ iter.active /\ iter.done
    /\ Len(iter.out) >= 2
    /\ get_idx_mask(iter.out[1])[1] # get_idx_mask(iter.out[Len(iter.out)])[1]
    /\ get_idx_mask(iter.out[1])[2] = {WORD_WIDTH - 1}

\* The ids of the bits that are set in the words of data.
BitIds(data) ==
    UNION {{(i - 1) * WORD_WIDTH + bit + Sysno_id(Sysno_first) : bit \in data[i]} :
              i \in DOMAIN data}

\* C11: SysnoSet::all() contains every valid syscall, first() and last()
\* among them, and nothing else: all().count() == Sysno::count() and
\* all().iter() yields Sysno::count() items; SysnoSet::empty() contains no
\* syscall, and clear() turns any set into the empty set.
C11_AllEmptyClear ==
    /\ \A x \in ValidIds : SysnoSet_contains(SysnoSet_all, x)
    /\ SysnoSet_contains(SysnoSet_all, Sysno_first)
    /\ SysnoSet_contains(SysnoSet_all, Sysno_last)
    /\ BitIds(SysnoSet_all) = ValidIds
    /\ SysnoSet_count(SysnoSet_all) = Sysno_count
    /\ (iter.active /\ iter.done /\ set = SysnoSet_all) =>
          /\ Len(iter.out) = Sysno_count
          /\ Range(iter.out) = ValidIds
    /\ \A x \in ValidIds : ~SysnoSet_contains(SysnoSet_empty, x)
    /\ SysnoSet_is_empty(SysnoSet_empty) /\ SysnoSet_count(SysnoSet_empty) = 0
    /\ last_op.op = "clear" =>
          /\ set = SysnoSet_empty
          /\ \A x \in ValidIds : ~SysnoSet_contains(set, x)

\* An iteration ran to its end over SysnoSet::all() of a table whose ids
\* spread over two words.
C11_Witness ==
    /\ iter.active /\ iter.done
    /\ set = SysnoSet_all
    /\ Len(set) >= 2 /\ Sysno_count >= 2
    /\ Len(iter.out) = Sysno_count

-----------------------------------------------------------------------------
(* Set algebra on two SysnoSets                                            *)

\* The sets SysnoSet::new builds from a slice of syscalls of the table.
BuiltSets == {SysnoSet_new(SortedSeq(S)) : S \in SUBSET Range(ALL)}

\* set.union(&other), set.intersection(&other), set.difference(&other),
\* set.symmetric_difference(&other): self is taken by value and returned.
Union ==
    /\ ~iter.active
    /\ result' = [op |-> "union", lhs |-> set, rhs |-> other,
                  data |-> SysnoSet_union(set, other)]
    /\ UNCHANGED <<ALL, errnoVars, sysnoVars, setVars, other, mapVars, trapVars>>

Intersection ==
    /\ ~iter.active
    /\ result' = [op |-> "intersection", lhs |-> set, rhs |-> other,
                  data |-> SysnoSet_intersection(set, other)]
    /\ UNCHANGED <<ALL, errnoVars, sysnoVars, setVars, other, mapVars, trapVars>>

Difference ==
    /\ ~iter.active
    /\ result' = [op |-> "difference", lhs |-> set, rhs |-> other,
                  data |-> SysnoSet_difference(set, other)]
    /\ UNCHANGED <<ALL, errnoVars, sysnoVars, setVars, other, mapVars, trapVars>>

SymmetricDifference ==
    /\ ~iter.active
    /\ result' = [op |-> "symmetric_difference", lhs |-> set, rhs |-> other,
                  data |-> SysnoSet_symmetric_difference(set, other)]
    /\ UNCHANGED <<ALL, errnoVars, sysnoVars, setVars, other, mapVars, trapVars>>

\* The caller goes on with the returned set: let set = set.op(&other).
Rebind ==
    /\ result.op # "none"
    /\ ~iter.active
    /\ set' = result.data
    /\ members' = {x \in Range(ALL) : SysnoSet_contains(result.data, x)}
    /\ result' = NoResult
    /\ UNCHANGED <<ALL, errnoVars, sysnoVars, last_op, prev_op, iter, other,
                   mapVars, trapVars>>

InitAlgebra ==
    /\ ALL \in Tables
    /\ ErrnoIdle
    /\ SysnoIdle
    /\ set \in BuiltSets
    /\ members = {x \in Range(ALL) : SysnoSet_contains(set, x)}
    /\ last_op = NoOp /\ prev_op = NoOp
    /\ iter = IterIdle
    /\ other \in BuiltSets
    /\ result = NoResult
    /\ MapIdle
    /\ TrapIdle

NextAlgebra ==
    \/ Union
    \/ Intersection
    \/ Difference
    \/ SymmetricDifference
    \/ Rebind

SpecAlgebra == InitAlgebra /\ [][NextAlgebra]_vars

\* C9: for all sets a, b and every syscall x,
\* a.union(b).contains(x) == a.contains(x) || b.contains(x),
\* a.intersection(b).contains(x) == a.contains(x) && b.contains(x),
\* a.difference(b).contains(x) == a.contains(x) && !b.contains(x),
\* a.symmetric_difference(b).contains(x) == (a.contains(x) != b.contains(x)).
C9_SetAlgebraLaws ==
    result.op # "none" =>
        \A x \in ValidIds :
            LET in_a == SysnoSet_contains(result.lhs, x)
                in_b == SysnoSet_contains(result.rhs, x)
                in_r == SysnoSet_contains(result.data, x)
            IN /\ result.op = "union" => (in_r <=> (in_a \/ in_b))
               /\ result.op = "intersection" => (in_r <=> (in_a /\ in_b))
               /\ result.op = "difference" => (in_r <=> (in_a /\ ~in_b))
               /\ result.op = "symmetric_difference" => (in_r <=> (in_a # in_b))

\* a.difference(b) was computed for sets of two words, with a syscall in b
\* only, one in both and one in a only.
C9_Witness ==
    /\ result.op = "difference"
    /\ Len(result.data) >= 2
    /\ \E x, y, z \in ValidIds :
          /\ ~SysnoSet_contains(result.lhs, x) /\ SysnoSet_contains(result.rhs, x)
          /\ SysnoSet_contains(result.lhs, y) /\ SysnoSet_contains(result.rhs, y)
          /\ SysnoSet_contains(result.lhs, z) /\ ~SysnoSet_contains(result.rhs, z)
          /\ SysnoSet_contains(result.data, z)

-----------------------------------------------------------------------------
(* SysnoMap (src/src/map.rs)                                               *)
(*                                                                         *)
(* A value of type T is a record [id, val]: id tells the values that were  *)
(* inserted apart (the n-th insert of a run inserts the value with id n),  *)
(* val is what a write through get_mut changes.  An operation that may     *)
(* read a MaybeUninit slot is the set of its possible outcomes: reading a  *)
(* slot that holds no value is undefined behaviour and may produce any     *)
(* value of T; the field ub of an outcome tells that this happened.        *)

\* How many values a run inserts.
MaxInserts == 3

\* The values of T.
Values == [id : 1..MaxInserts, val : {0, 1}]

\* MaybeUninit::uninit(), MaybeUninit::new(value)
MaybeUninit_uninit == [init |-> FALSE]
MaybeUninit_new(value) == [init |-> TRUE, val |-> value]

\* MaybeUninit::assume_init / assume_init_ref / assume_init_mut /
\* assume_init_drop: the values the call may see in the slot.
assume_init(slot) == IF slot.init THEN {slot.val} ELSE Values

\* get_idx
get_idx(sysno) == Sysno_id(sysno) - Sysno_id(Sysno_first)

\* SysnoMap::new
SysnoMap_new ==
    [is_set |-> SysnoSet_empty,
     data |-> [i \in 1..Sysno_table_size |-> MaybeUninit_uninit]]

\* SysnoMap::contains_key
SysnoMap_contains_key(self, sysno) == SysnoSet_contains(self.is_set, sysno)

\* SysnoMap::count taking the number of non-zero words of is_set.
SysnoMap_count_words(self) == SysnoSet_count_words(self.is_set)

\* SysnoMap::is_empty, SysnoMap::count
SysnoMap_is_empty(self) == SysnoSet_is_empty(self.is_set)
SysnoMap_count(self) == SysnoSet_count(self.is_set)

\* SysnoMap::insert testing the bit with contains() and never setting it.
SysnoMap_insert_no_mark(self, sysno, value) ==
    LET uninit == At(self.data, get_idx(sysno))
        written == Put(self.data, get_idx(sysno), MaybeUninit_new(value))
    IN IF ~SysnoSet_contains(self.is_set, sysno)
       THEN {[self |-> [is_set |-> self.is_set, data |-> written],
              ret |-> <<>>, ub |-> FALSE]}
       ELSE {[self |-> [is_set |-> self.is_set, data |-> written],
              ret |-> <<old>>, ub |-> ~uninit.init] : old \in assume_init(uninit)}

\* SysnoMap::insert: the outcomes [self, ret, ub].
SysnoMap_insert(self, sysno, value) ==
    LET uninit == At(self.data, get_idx(sysno))
        inserted == SysnoSet_insert(self.is_set, sysno)
        written == Put(self.data, get_idx(sysno), MaybeUninit_new(value))
    IN IF inserted.ret
       THEN {[self |-> [is_set |-> inserted.data, data |-> written],
              ret |-> <<>>, ub |-> FALSE]}
       ELSE {[self |-> [is_set |-> inserted.data, data |-> written],
              ret |-> <<old>>, ub |-> ~uninit.init] : old \in assume_init(uninit)}

\* SysnoMap::remove leaving the bit of is_set as it is.
SysnoMap_remove_keep_bit(self, sysno) ==
    LET slot == At(self.data, get_idx(sysno))
        taken == Put(self.data, get_idx(sysno), MaybeUninit_uninit)
    IN IF SysnoSet_contains(self.is_set, sysno)
       THEN {[self |-> [is_set |-> self.is_set, data |-> taken],
              ret |-> <<old>>, ub |-> ~slot.init] : old \in assume_init(slot)}
       ELSE {[self |-> self, ret |-> <<>>, ub |-> FALSE]}

\* SysnoMap::remove: the outcomes [self, ret, ub].
SysnoMap_remove(self, sysno) ==
    LET slot == At(self.data, get_idx(sysno))
        removed == SysnoSet_remove(self.is_set, sysno)
        taken == Put(self.data, get_idx(sysno), MaybeUninit_uninit)
    IN IF removed.ret
       THEN {[self |-> [is_set |-> removed.data, data |-> taken],
              ret |-> <<old>>, ub |-> ~slot.init] : old \in assume_init(slot)}
       ELSE {[self |-> [is_set |-> removed.data, data |-> self.data],
              ret |-> <<>>, ub |-> FALSE]}

\* SysnoMap::get without the test of is_set.
SysnoMap_get_unchecked(self, sysno) ==
    LET slot == At(self.data, get_idx(sysno))
    IN {[ret |-> <<v>>, ub |-> ~slot.init] : v \in assume_init(slot)}

\* SysnoMap::get and SysnoMap::get_mut: the outcomes [ret, ub]; ret is the
\* value the returned reference points to.
SysnoMap_get(self, sysno) ==
    LET slot == At(self.data, get_idx(sysno))
    IN IF SysnoSet_contains(self.is_set, sysno)
       THEN {[ret |-> <<v>>, ub |-> ~slot.init] : v \in assume_init(slot)}
       ELSE {[ret |-> <<>>, ub |-> FALSE]}

SysnoMap_get_mut(self, sysno) ==
    LET slot == At(self.data, get_idx(sysno))
    IN IF SysnoSet_contains(self.is_set, sysno)
       THEN {[ret |-> <<v>>, ub |-> ~slot.init] : v \in assume_init(slot)}
       ELSE {[ret |-> <<>>, ub |-> FALSE]}

\* `for sysno in &self.is_set`: the syscalls the loop visits, in order, and
\* whether Sysno::from panicked on the way.
RECURSIVE for_loop(_, _, _)
for_loop(data, it, visited) ==
    LET r == SysnoSetIter_next(data, it)
    IN IF r.ret = <<>> THEN [visited |-> visited, panicked |-> FALSE]
       ELSE IF r.ret[1].panic THEN [visited |-> visited, panicked |-> TRUE]
       ELSE for_loop(data, r.it, Append(visited, r.ret[1].val))

\* The slots of data at the given syscalls emptied: assume_init_drop leaves
\* no value behind.
Dropped(data, syscalls) ==
    [i \in DOMAIN data |->
        IF \E n \in DOMAIN syscalls : get_idx(syscalls[n]) = i - 1
        THEN MaybeUninit_uninit ELSE data[i]]

\* SysnoMap::clear without the final self.is_set.clear().
SysnoMap_clear_keep_set(self) ==
    LET loop == for_loop(self.is_set, SysnoSetIter_new(self.is_set), <<>>)
        dead == {n \in DOMAIN loop.visited :
                    ~At(self.data, get_idx(loop.visited[n])).init}
    IN {[self |-> [is_set |-> self.is_set,
                   data |-> Dropped(self.data, loop.visited)],
         dropped |-> [n \in DOMAIN loop.visited |->
                         IF n \in dead THEN seen[n]
                         ELSE At(self.data, get_idx(loop.visited[n])).val],
         ub |-> dead # {},
         panicked |-> loop.panicked] : seen \in [dead -> Values]}

\* SysnoMap::clear: the outcomes [self, dropped, ub, panicked]; dropped lists
\* the values assume_init_drop dropped, in the order of the loop.  A panic of
\* the loop leaves is_set as it was.
SysnoMap_clear(self) ==
    LET loop == for_loop(self.is_set, SysnoSetIter_new(self.is_set), <<>>)
        dead == {n \in DOMAIN loop.visited :
                    ~At(self.data, get_idx(loop.visited[n])).init}
    IN {[self |-> [is_set |-> IF loop.panicked THEN self.is_set
                              ELSE SysnoSet_clear(self.is_set),
                   data |-> Dropped(self.data, loop.visited)],
         dropped |-> [n \in DOMAIN loop.visited |->
                         IF n \in dead THEN seen[n]
                         ELSE At(self.data, get_idx(loop.visited[n])).val],
         ub |-> dead # {},
         panicked |-> loop.panicked] : seen \in [dead -> Values]}

\* SysnoMap::iter, SysnoMap::values: the SysnoSetIter over is_set; data stays
\* borrowed.
SysnoMap_iter(self) == SysnoSetIter_new(self.is_set)
SysnoMap_values(self) == SysnoSetIter_new(self.is_set)

\* SysnoMapIter::next looking the value up at the id instead of get_idx.
SysnoMapIter_next_at_id(self, it) ==
    LET r == SysnoSetIter_next(self.is_set, it)
    IN IF r.ret = <<>>
       THEN {[it |-> r.it, ret |-> <<>>, ub |-> FALSE, panicked |-> FALSE]}
       ELSE IF r.ret[1].panic
       THEN {[it |-> r.it, ret |-> <<>>, ub |-> FALSE, panicked |-> TRUE]}
       ELSE LET sysno == r.ret[1].val
                slot == IF Sysno_id(sysno) < Len(self.data)
                        THEN At(self.data, Sysno_id(sysno))
                        ELSE MaybeUninit_uninit
            IN {[it |-> r.it, ret |-> << <<sysno, value>> >>,
                 ub |-> ~slot.init, panicked |-> FALSE] :
                   value \in assume_init(slot)}

\* SysnoMapIter::next: the outcomes [it, ret, ub, panicked]; ret is None or
\* Some((sysno, value)).
SysnoMapIter_next(self, it) ==
    LET r == SysnoSetIter_next(self.is_set, it)
    IN IF r.ret = <<>>
       THEN {[it |-> r.it, ret |-> <<>>, ub |-> FALSE, panicked |-> FALSE]}
       ELSE IF r.ret[1].panic
       THEN {[it |-> r.it, ret |-> <<>>, ub |-> FALSE, panicked |-> TRUE]}
       ELSE LET sysno == r.ret[1].val
                slot == At(self.data, get_idx(sysno))
            IN {[it |-> r.it, ret |-> << <<sysno, value>> >>,
                 ub |-> ~slot.init, panicked |-> FALSE] :
                   value \in assume_init(slot)}

\* SysnoMapValues::next: the outcomes [it, ret, ub, panicked]; ret is None or
\* Some(value).
SysnoMapValues_next(self, it) ==
    LET r == SysnoSetIter_next(self.is_set, it)
    IN IF r.ret = <<>>
       THEN {[it |-> r.it, ret |-> <<>>, ub |-> FALSE, panicked |-> FALSE]}
       ELSE IF r.ret[1].panic
       THEN {[it |-> r.it, ret |-> <<>>, ub |-> FALSE, panicked |-> TRUE]}
       ELSE LET sysno == r.ret[1].val
                slot == At(self.data, get_idx(sysno))
            IN {[it |-> r.it, ret |-> <<value>>,
                 ub |-> ~slot.init, panicked |-> FALSE] :
                   value \in assume_init(slot)}

\* The ledger after the values of a sequence have been handed back or dropped.
Dispose(led, values) ==
    [led EXCEPT !.disposed =
        [t \in DOMAIN @ |->
            @[t] + Cardinality({n \in DOMAIN values : values[n].id = t})]]

\* Whether the call before was the same call on the same key.
Again(op, sysno) == map_op.op = op /\ map_op.k = sysno

\* Whether the map can be called: it has not been dropped, no clear() has
\* panicked and no iterator borrows it.
MapUsable == map_op.op # "drop" /\ ~map_op.panicked /\ ~map_iter.active

\* map.insert(sysno, value) with a value not inserted before.
MapInsert(sysno) ==
    /\ MapUsable
    /\ ledger.inserted < MaxInserts
    /\ LET value == [id |-> ledger.inserted + 1, val |-> 0]
       IN \E o \in SysnoMap_insert(map, sysno, value) :
            /\ map' = o.self
            /\ entries' = [entries EXCEPT ![sysno] = <<value>>]
            /\ ledger' = Dispose([ledger EXCEPT !.inserted = @ + 1], o.ret)
            /\ map_op' = [op |-> "insert", k |-> sysno, v |-> value,
                          ret |-> o.ret, ub |-> o.ub, panicked |-> FALSE,
                          pre |-> entries[sysno],
                          cnt0 |-> SysnoMap_count(map),
                          again |-> Again("insert", sysno)]
    /\ UNCHANGED <<ALL, errnoVars, sysnoVars, setVars, algebraVars, trapVars,
                   map_iter>>

\* map.remove(sysno)
MapRemove(sysno) ==
    /\ MapUsable
    /\ \E o \in SysnoMap_remove(map, sysno) :
         /\ map' = o.self
         /\ entries' = [entries EXCEPT ![sysno] = <<>>]
         /\ ledger' = Dispose(ledger, o.ret)
         /\ map_op' = [op |-> "remove", k |-> sysno, v |-> <<>>,
                       ret |-> o.ret, ub |-> o.ub, panicked |-> FALSE,
                       pre |-> entries[sysno],
                       cnt0 |-> SysnoMap_count(map),
                       again |-> Again("remove", sysno), same |-> o.self = map]
    /\ UNCHANGED <<ALL, errnoVars, sysnoVars, setVars, algebraVars, trapVars,
                   map_iter>>

\* *map.get_mut(sysno)? = the value with val changed: a write through the
\* reference get_mut returns, if it returns one.
MapWrite(sysno) ==
    /\ MapUsable
    /\ \E o \in SysnoMap_get_mut(map, sysno) :
         /\ map' = IF o.ret = <<>> THEN map
                   ELSE [map EXCEPT !.data =
                            Put(@, get_idx(sysno),
                                MaybeUninit_new([o.ret[1] EXCEPT !.val = 1 - @]))]
         /\ map_op' = [op |-> "get_mut", k |-> sysno, v |-> <<>>,
                       ret |-> o.ret, ub |-> o.ub, panicked |-> FALSE,
                       pre |-> entries[sysno],
                       cnt0 |-> SysnoMap_count(map),
                       again |-> Again("get_mut", sysno)]
    /\ entries' = IF entries[sysno] = <<>> THEN entries
                  ELSE [entries EXCEPT
                           ![sysno] = <<[@[1] EXCEPT !.val = 1 - @]>>]
    /\ UNCHANGED <<ALL, errnoVars, sysnoVars, setVars, algebraVars, trapVars,
                   ledger,
                   map_iter>>

\* map.clear()
MapClear ==
    /\ MapUsable
    /\ \E o \in SysnoMap_clear(map) :
         /\ map' = o.self
         /\ ledger' = Dispose(ledger, o.dropped)
         /\ map_op' = [op |-> "clear", k |-> -1, v |-> <<>>,
                       ret |-> <<>>, ub |-> o.ub, panicked |-> o.panicked,
                       pre |-> <<>>,
                       cnt0 |-> SysnoMap_count(map), again |-> FALSE]
    /\ entries' = [k \in DOMAIN entries |-> <<>>]
    /\ UNCHANGED <<ALL, errnoVars, sysnoVars, setVars, algebraVars, trapVars,
                   map_iter>>

\* The map goes out of scope: Drop::drop calls self.clear(), and the map is
\* gone.
MapDrop ==
    /\ MapUsable
    /\ \E o \in SysnoMap_clear(map) :
         /\ map' = o.self
         /\ ledger' = Dispose(ledger, o.dropped)
         /\ map_op' = [op |-> "drop", k |-> -1, v |-> <<>>,
                       ret |-> <<>>, ub |-> o.ub, panicked |-> o.panicked,
                       pre |-> <<>>,
                       cnt0 |-> SysnoMap_count(map), again |-> FALSE]
    /\ entries' = [k \in DOMAIN entries |-> <<>>]
    /\ UNCHANGED <<ALL, errnoVars, sysnoVars, setVars, algebraVars, trapVars,
                   map_iter>>

\* What map_op records for map.iter() and map.values().
Borrowed == [op |-> "iter", k |-> -1, ub |-> FALSE, panicked |-> FALSE]

\* map.iter() and map.values(): the map stays borrowed, and so unchanged,
\* until the iterator is dropped.
MapIter ==
    /\ MapUsable
    /\ map_iter' = [active |-> TRUE, kind |-> "iter", it |-> SysnoMap_iter(map),
                    out |-> <<>>, done |-> FALSE, ub |-> FALSE,
                    panicked |-> FALSE]
    /\ map_op' = Borrowed
    /\ UNCHANGED <<ALL, errnoVars, sysnoVars, setVars, algebraVars, trapVars,
                   map,
                   entries, ledger>>

MapValues ==
    /\ MapUsable
    /\ map_iter' = [active |-> TRUE, kind |-> "values",
                    it |-> SysnoMap_values(map),
                    out |-> <<>>, done |-> FALSE, ub |-> FALSE,
                    panicked |-> FALSE]
    /\ map_op' = Borrowed
    /\ UNCHANGED <<ALL, errnoVars, sysnoVars, setVars, algebraVars, trapVars,
                   map,
                   entries, ledger>>

\* One call of SysnoMapIter::next or SysnoMapValues::next.
MapIterNext ==
    /\ map_iter.active /\ ~map_iter.done /\ ~map_iter.panicked
    /\ \E o \in IF map_iter.kind = "iter"
                THEN SysnoMapIter_next(map, map_iter.it)
                ELSE SysnoMapValues_next(map, map_iter.it) :
         map_iter' = [map_iter EXCEPT
                         !.it = o.it,
                         !.out = @ \o o.ret,
                         !.done = o.ret = <<>> /\ ~o.panicked,
                         !.ub = @ \/ o.ub,
                         !.panicked = o.panicked]
    /\ UNCHANGED <<ALL, errnoVars, sysnoVars, setVars, algebraVars, trapVars,
                   map,
                   entries, ledger, map_op>>

\* The iterator is dropped.
MapIterDrop ==
    /\ map_iter.active
    /\ map_iter' = IterIdle
    /\ UNCHANGED <<ALL, errnoVars, sysnoVars, setVars, algebraVars, trapVars,
                   map,
                   entries, ledger, map_op>>

\* The tables the map is exercised with: those over three ids, the first one
\* not 0 and the last one in the second word of is_set.
MapIds == {1, 2, 65}
MapTables == {t \in Tables : Range(t) \subseteq MapIds}

\* The map starts as SysnoMap::new().
InitMap ==
    /\ ALL \in MapTables
    /\ ErrnoIdle
    /\ SysnoIdle
    /\ SetIdle
    /\ AlgebraIdle
    /\ map = SysnoMap_new
    /\ entries = [k \in Range(ALL) |-> <<>>]
    /\ ledger = [inserted |-> 0, disposed |-> [t \in 1..MaxInserts |-> 0]]
    /\ map_op = [op |-> "new", k |-> -1, ub |-> FALSE, panicked |-> FALSE]
    /\ map_iter = IterIdle
    /\ TrapIdle

NextMap ==
    \/ \E sysno \in Range(ALL) : MapInsert(sysno)
    \/ \E sysno \in Range(ALL) : MapRemove(sysno)
    \/ \E sysno \in Range(ALL) : MapWrite(sysno)
    \/ MapClear
    \/ MapDrop
    \/ MapIter
    \/ MapValues
    \/ MapIterNext
    \/ MapIterDrop

SpecMap == InitMap /\ [][NextMap]_vars

\* The slot of a syscall in the map's data.
Slot(sysno) == At(map.data, get_idx(sysno))

C13_RemoveResult ==
    map_op.op = "remove" =>
        /\ ~map_op.ub
        /\ map_op.ret = map_op.pre
        /\ ~Slot(map_op.k).init
        /\ ~SysnoMap_contains_key(map, map_op.k)
        /\ SysnoMap_get(map, map_op.k) = {[ret |-> <<>>, ub |-> FALSE]}
        /\ map_op.pre = <<>> => map_op.same
        /\ map_op.again => map_op.ret = <<>>

\* remove(k) was called twice in a row while another key of the same word
\* stays live.
C13_Witness ==
    /\ map_op.op = "remove" /\ map_op.again /\ map_op.ret = <<>>
    /\ ledger.disposed[1] + ledger.disposed[2] >= 1
    /\ \E k \in ValidIds :
          /\ k # map_op.k /\ SysnoMap_contains_key(map, k)
          /\ get_idx_mask(k)[1] = get_idx_mask(map_op.k)[1]

\* The syscalls whose slot holds a value.
LiveSlots == {k \in ValidIds : Slot(k).init}

\* C14: after any sequence of insert, remove and clear, for every syscall k,
\* get(k) and get_mut(k) return Some iff contains_key(k), iff the most recent
\* call affecting k was an insert, and the value is that of this insert (or
\* the one later written through get_mut); no reference into a dead slot is
\* ever produced.
C14_GetTracksLatestInsert ==
    \A k \in ValidIds :
        /\ SysnoMap_get(map, k) = {[ret |-> entries[k], ub |-> FALSE]}
        /\ SysnoMap_get_mut(map, k) = {[ret |-> entries[k], ub |-> FALSE]}
        /\ SysnoMap_contains_key(map, k) <=> entries[k] # <<>>
        /\ SysnoMap_contains_key(map, k) <=> Slot(k).init

\* A value was written through get_mut while one key, inserted and removed
\* before, is dead and another, inserted twice, is live.
C14_Witness ==
    /\ map_op.op = "get_mut" /\ map_op.ret # <<>>
    /\ entries[map_op.k] = <<[map_op.ret[1] EXCEPT !.val = 1]>>
    /\ ledger.inserted = MaxInserts
    /\ \E k \in ValidIds : entries[k] = <<>>
    /\ \E t \in 1..MaxInserts : ledger.disposed[t] = 1

C16_CountIsLiveSlots ==
    /\ SysnoMap_count(map) = SysnoSet_count(map.is_set)
    /\ SysnoMap_count(map) = Cardinality(LiveSlots)
    /\ SysnoMap_count(map) = Cardinality({k \in ValidIds : entries[k] # <<>>})
    /\ SysnoMap_is_empty(map) <=> LiveSlots = {}
    /\ map_op.op = "insert" /\ map_op.pre # <<>> =>
          SysnoMap_count(map) = map_op.cnt0
    /\ map_op.op = "insert" /\ map_op.pre = <<>> =>
          SysnoMap_count(map) = map_op.cnt0 + 1

\* insert has overwritten a live key of a map that holds two keys of the
\* same word.
C16_Witness ==
    /\ map_op.op = "insert" /\ map_op.pre # <<>>
    /\ SysnoMap_count(map) = 2
    /\ \E k \in LiveSlots :
          k # map_op.k /\ get_idx_mask(k)[1] = get_idx_mask(map_op.k)[1]

\* The syscalls in the order in which a SysnoSetIter over is_set yields them.
SetOrder == for_loop(map.is_set, SysnoSetIter_new(map.is_set), <<>>).visited

\* C17: SysnoMap::iter() and values() visit exactly the live slots, each
\* once, in the same ascending-id order in which the internal SysnoSet
\* iterates, pairing every key with its current value; they never touch a
\* dead slot.
C17_IterVisitsLiveSlotsInOrder ==
    map_iter.active =>
        /\ ~map_iter.ub /\ ~map_iter.panicked
        /\ Ascending(SetOrder)
        /\ Range(SetOrder) = LiveSlots
        /\ Len(map_iter.out) <= Len(SetOrder)
        /\ \A n \in DOMAIN map_iter.out :
              /\ Slot(SetOrder[n]).init
              /\ entries[SetOrder[n]] = <<Slot(SetOrder[n]).val>>
              /\ map_iter.kind = "iter" =>
                    map_iter.out[n] = <<SetOrder[n], Slot(SetOrder[n]).val>>
              /\ map_iter.kind = "values" =>
                    map_iter.out[n] = Slot(SetOrder[n]).val
        /\ map_iter.done => Len(map_iter.out) = SysnoMap_count(map)

\* iter() ran to its end over a map with keys in both words of is_set, one of
\* the values written through get_mut.
C17_Witness ==
    /\ map_iter.active /\ map_iter.done /\ map_iter.kind = "iter"
    /\ Len(map_iter.out) >= 2
    /\ get_idx_mask(map_iter.out[1][1])[1]
          # get_idx_mask(map_iter.out[Len(map_iter.out)][1])[1]
    /\ \E n \in DOMAIN map_iter.out : map_iter.out[n][2].val = 1

\* C28: insert(k, _), remove(k) and a write through get_mut(k) change only
\* key k of a SysnoMap: every other key stays live or dead as it was, with
\* the value it had; SysnoSet::insert(x) and SysnoSet::remove(x) leave
\* contains(y) as it was for every y other than x.
C28_OtherKeysUntouched ==
    [][/\ map_op'.op \in {"insert", "remove", "get_mut"} =>
            \A j \in ValidIds \ {map_op'.k} :
                /\ SysnoMap_contains_key(map', j) = SysnoMap_contains_key(map, j)
                /\ At(map'.data, get_idx(j)) = At(map.data, get_idx(j))
                /\ SysnoMap_get(map', j) = SysnoMap_get(map, j)
       /\ \A x, y \in ValidIds :
            x # y =>
                /\ SysnoSet_contains(SysnoSet_insert(map.is_set, x).data, y)
                       = SysnoSet_contains(map.is_set, y)
                /\ SysnoSet_contains(SysnoSet_remove(map.is_set, x).data, y)
                       = SysnoSet_contains(map.is_set, y)]_vars

\* A key was removed while another key of the same word of is_set is live
\* and holds a value written through get_mut.
C28_Witness ==
    /\ map_op.op = "remove" /\ map_op.ret # <<>>
    /\ \E j \in ValidIds :
          /\ j # map_op.k
          /\ get_idx_mask(j)[1] = get_idx_mask(map_op.k)[1]
          /\ SysnoMap_contains_key(map, j)
          /\ Slot(j).init /\ Slot(j).val.val = 1

\* C26: for every valid syscall s, get_idx_mask(s) is a word index below the
\* length of the backing array, ceil(table_size / word_bits), and a mask of
\* one bit; get_idx(s) is below table_size and equals word index * word_bits
\* + bit position; distinct syscalls have distinct (word, bit) positions and
\* distinct map slots.
C26_IndexInBounds ==
    /\ Len(set) = words(Sysno_table_size)
    /\ Sysno_table_size <= Len(set) * bits_per
    /\ Sysno_table_size > (Len(set) - 1) * bits_per
    /\ \A s \in ValidIds :
          LET im == get_idx_mask(s)
          IN /\ im[1] >= 0 /\ im[1] < Len(set)
             /\ Cardinality(im[2]) = 1
             /\ im[2] \subseteq 0..(bits_per - 1)
             /\ get_idx(s) >= 0 /\ get_idx(s) < Sysno_table_size
             /\ \A b \in im[2] : get_idx(s) = im[1] * bits_per + b
    /\ \A s, t \in ValidIds :
          s # t => /\ get_idx_mask(s) # get_idx_mask(t)
                   /\ get_idx(s) # get_idx(t)

\* A syscall of the last of three words has been inserted.
C26_Witness ==
    /\ last_op.op = "insert"
    /\ Len(set) = 3
    /\ get_idx_mask(last_op.x)[1] = 2
    /\ get_idx_mask(last_op.x)[2] \subseteq set[3]
    /\ get_idx(last_op.x) = Sysno_table_size - 1

-----------------------------------------------------------------------------
(* SysnoMap over a type whose destructor may panic                         *)

\* SysnoMap::clear when the destructor of the n-th element the loop visits
\* panics: assume_init_drop has run on the first n slots, the loop is left
\* by unwinding and self.is_set.clear() is not reached.
SysnoMap_clear_unwind(self, n) ==
    LET loop == for_loop(self.is_set, SysnoSetIter_new(self.is_set), <<>>)
        visited == SubSeq(loop.visited, 1, n)
        dead == {i \in DOMAIN visited : ~At(self.data, get_idx(visited[i])).init}
    IN {[self |-> [is_set |-> self.is_set,
                   data |-> Dropped(self.data, visited)],
         dropped |-> [i \in DOMAIN visited |->
                         IF i \in dead THEN seen[i]
                         ELSE At(self.data, get_idx(visited[i])).val],
         ub |-> dead # {},
         panicked |-> TRUE] : seen \in [dead -> Values]}

\* map.clear(), interrupted by the panic of the n-th destructor.
MapClearUnwind(n) ==
    /\ MapUsable
    /\ n <= SysnoMap_count(map)
    /\ \E o \in SysnoMap_clear_unwind(map, n) :
         /\ map' = o.self
         /\ ledger' = Dispose(ledger, o.dropped)
         /\ map_op' = [op |-> "clear", k |-> -1, v |-> <<>>,
                       ret |-> <<>>, ub |-> o.ub, panicked |-> o.panicked,
                       pre |-> <<>>,
                       cnt0 |-> SysnoMap_count(map), again |-> FALSE]
         /\ entries' = [k \in DOMAIN entries |->
                           IF At(o.self.data, get_idx(k)).init
                           THEN entries[k] ELSE <<>>]
    /\ UNCHANGED <<ALL, errnoVars, sysnoVars, setVars, algebraVars, trapVars,
                   map_iter>>

\* The panic of clear() unwinds through the owner of the map: Drop::drop
\* calls self.clear() on the map as the interrupted clear() left it.
MapDropUnwinding ==
    /\ map_op.op = "clear" /\ map_op.panicked
    /\ \E o \in SysnoMap_clear(map) :
         /\ map' = o.self
         /\ ledger' = Dispose(ledger, o.dropped)
         /\ map_op' = [op |-> "drop while unwinding", k |-> -1, v |-> <<>>,
                       ret |-> <<>>, ub |-> o.ub, panicked |-> TRUE,
                       pre |-> <<>>,
                       cnt0 |-> SysnoMap_count(map), again |-> FALSE]
    /\ entries' = [k \in DOMAIN entries |-> <<>>]
    /\ UNCHANGED <<ALL, errnoVars, sysnoVars, setVars, algebraVars, trapVars,
                   map_iter>>

NextUnwind ==
    \/ NextMap
    \/ \E n \in 1..MaxInserts : MapClearUnwind(n)
    \/ MapDropUnwinding

SpecUnwind == InitMap /\ [][NextUnwind]_vars

\* C29: when the destructor of an element panics part-way through clear(),
\* the drop of the map that follows deinitializes no slot that the
\* interrupted clear() has deinitialized already: it runs assume_init_drop
\* on live slots only, and no value is disposed of twice.
C29_NoSlotDeinitializedTwice ==
    map_op.op = "drop while unwinding" =>
        /\ ~map_op.ub
        /\ \A t \in 1..MaxInserts : ledger.disposed[t] <= 1

-----------------------------------------------------------------------------
(* A program that uses every operation of SysnoSet on one set               *)

\* set |= &other
BitOrAssign ==
    /\ ~iter.active
    /\ set' = SysnoSet_bitor_assign(set, other)
    /\ members' = members \cup {x \in Range(ALL) : SysnoSet_contains(other, x)}
    /\ last_op' = [op |-> "|=", x |-> -1]
    /\ prev_op' = [op |-> last_op.op, x |-> last_op.x]
    /\ UNCHANGED <<ALL, errnoVars, sysnoVars, iter, algebraVars, mapVars,
                   trapVars>>

\* set.extend(syscalls)
Extend(syscalls) ==
    /\ ~iter.active
    /\ set' = SysnoSet_extend(set, syscalls)
    /\ members' = members \cup Range(syscalls)
    /\ last_op' = [op |-> "extend", x |-> -1]
    /\ prev_op' = [op |-> last_op.op, x |-> last_op.x]
    /\ UNCHANGED <<ALL, errnoVars, sysnoVars, iter, algebraVars, mapVars,
                   trapVars>>

\* The tables of one or two syscalls: one word or two, with and without
\* holes.
OpsTables == {t \in MapTables : Len(t) <= 2}

\* set and other are built by SysnoSet::new (SysnoSet::empty() and
\* SysnoSet::all() among its results).
InitOps ==
    /\ ALL \in OpsTables
    /\ ErrnoIdle /\ SysnoIdle
    /\ set \in BuiltSets
    /\ members = {x \in Range(ALL) : SysnoSet_contains(set, x)}
    /\ last_op = NoOp /\ prev_op = NoOp
    /\ iter = IterIdle
    /\ other \in BuiltSets
    /\ result = NoResult
    /\ MapIdle /\ TrapIdle

NextOps ==
    \/ \E sysno \in Range(ALL) : Insert(sysno)
    \/ \E sysno \in Range(ALL) : Remove(sysno)
    \/ Clear
    \/ BitOrAssign
    \/ \E syscalls \in UNION {[1..n -> Range(ALL)] : n \in 0..2} :
           Extend(syscalls)
    \/ Union
    \/ Intersection
    \/ Difference
    \/ SymmetricDifference
    \/ Rebind
    \/ SetIter
    \/ SetIterNext
    \/ SetIterDrop

SpecOps == InitOps /\ [][NextOps]_vars

\* C27: after any sequence of SysnoSet operations every bit set in the
\* backing words is the position of a valid syscall (no hole of the table
\* and no position at or beyond table_size), so iteration never reaches the
\* panicking conversion Sysno::from.
C27_OnlyValidBits ==
    /\ \A i \in DOMAIN set : set[i] \subseteq Bits
    /\ BitIds(set) \subseteq ValidIds
    /\ BitIds(set) = members
    /\ result.op # "none" => BitIds(result.data) \subseteq ValidIds
    /\ iter.active => ~iter.panicked

\* A set of a table with holes and two words has been changed by |= and then
\* by extend.
C27_Witness ==
    /\ prev_op.op = "|=" /\ last_op.op = "extend"
    /\ Len(set) = 2 /\ Sysno_count < Sysno_table_size
    /\ set[1] # {} /\ set[2] # {}

-----------------------------------------------------------------------------
(* SysnoMap::from_slice                                                    *)

\* The longest slice from_slice is called with.
MaxSlice == 3

\* The values of the Copy type T of the slice.
CopyValues == {42, 43}

\* The slices of (Sysno, T) pairs.
Slices ==
    UNION {[1..n -> Range(ALL) \X CopyValues] : n \in 0..MaxSlice}

\* SysnoMap::from_slice: the while loop over slice[i..], counting i from 1.
RECURSIVE from_slice_loop(_, _, _, _)
from_slice_loop(is_set, data, slice, i) ==
    IF i <= Len(slice)
    THEN LET sysno == slice[i][1]
             im == get_idx_mask(sysno)
         IN from_slice_loop(
                Put(is_set, im[1], BitOr(At(is_set, im[1]), im[2])),
                Put(data, get_idx(sysno), MaybeUninit_new(slice[i][2])),
                slice, i + 1)
    ELSE [is_set |-> is_set, data |-> data]

\* The elements of a slice in the opposite order.
Reversed(slice) == [n \in DOMAIN slice |-> slice[Len(slice) + 1 - n]]

\* SysnoMap::from_slice walking the slice from its end.
SysnoMap_from_slice_backwards(slice) ==
    from_slice_loop(SysnoSet_empty,
                    [n \in 1..Sysno_table_size |-> MaybeUninit_uninit],
                    Reversed(slice), 1)

\* SysnoMap::from_slice
SysnoMap_from_slice(slice) ==
    from_slice_loop(SysnoSet_empty,
                    [n \in 1..Sysno_table_size |-> MaybeUninit_uninit],
                    slice, 1)

\* let map = SysnoMap::from_slice(slice)
FromSlice(slice) ==
    /\ map_op = NoOp
    /\ map' = SysnoMap_from_slice(slice)
    /\ map_op' = [op |-> "from_slice", k |-> -1, slice |-> slice,
                  ub |-> FALSE, panicked |-> FALSE]
    /\ UNCHANGED <<ALL, errnoVars, sysnoVars, setVars, algebraVars, trapVars,
                   entries,
                   ledger, map_iter>>

\* No map has been built yet.
InitFromSlice ==
    /\ ALL \in MapTables
    /\ ErrnoIdle
    /\ SysnoIdle
    /\ SetIdle
    /\ AlgebraIdle
    /\ MapIdle
    /\ TrapIdle

NextFromSlice == \E slice \in Slices : FromSlice(slice)

SpecFromSlice == InitFromSlice /\ [][NextFromSlice]_vars

\* The keys of a slice.
Keys(slice) == {slice[n][1] : n \in DOMAIN slice}

\* C18: SysnoMap::from_slice(list) produces a map in which a key is live iff
\* it occurs in list and every other slot is dead; the value of a live key is
\* the value of its last occurrence in list, and count() equals the number of
\* distinct keys in list.
C18_FromSliceLastWins ==
    map_op.op = "from_slice" =>
        LET slice == map_op.slice
        IN /\ \A k \in ValidIds :
                 /\ SysnoMap_contains_key(map, k) <=> k \in Keys(slice)
                 /\ Slot(k).init <=> k \in Keys(slice)
                 /\ k \notin Keys(slice) =>
                       SysnoMap_get(map, k) = {[ret |-> <<>>, ub |-> FALSE]}
                 /\ k \in Keys(slice) =>
                       LET last == CHOOSE n \in DOMAIN slice :
                                      /\ slice[n][1] = k
                                      /\ \A m \in DOMAIN slice :
                                            m > n => slice[m][1] # k
                       IN SysnoMap_get(map, k)
                             = {[ret |-> <<slice[last][2]>>, ub |-> FALSE]}
           /\ \A n \in DOMAIN map.data :
                 map.data[n].init => \E k \in Keys(slice) : get_idx(k) = n - 1
           /\ SysnoMap_count(map) = Cardinality(Keys(slice))

\* from_slice was given a list in which one key occurs twice, with different
\* values, another key once and a third key of the table not at all.
C18_Witness ==
    /\ map_op.op = "from_slice"
    /\ Len(map_op.slice) = 3
    /\ map_op.slice[1][1] = map_op.slice[3][1]
    /\ map_op.slice[1][2] # map_op.slice[3][2]
    /\ map_op.slice[2][1] # map_op.slice[1][1]
    /\ SysnoMap_count(map) = 2
    /\ Sysno_count = 3

-----------------------------------------------------------------------------
(* Extend, FromIterator and init_all of SysnoMap                           *)

\* `for (sysno, value) in iter { self.insert(sysno, value); }`: the outcomes
\* [self, dropped, ub]; dropped lists the values insert handed back, which
\* the loop body drops at once.
RECURSIVE extend_loop(_, _, _, _)
extend_loop(self, pairs, dropped, ub) ==
    IF pairs = <<>>
    THEN {[self |-> self, dropped |-> dropped, ub |-> ub]}
    ELSE UNION {extend_loop(o.self, Tail(pairs), dropped \o o.ret, ub \/ o.ub) :
                  o \in SysnoMap_insert(self, Head(pairs)[1], Head(pairs)[2])}

\* Extend taking the pairs from the last to the first.
SysnoMap_extend_backwards(self, pairs) ==
    extend_loop(self, Reversed(pairs), <<>>, FALSE)

\* Extend<(Sysno, T)> for SysnoMap
SysnoMap_extend(self, pairs) == extend_loop(self, pairs, <<>>, FALSE)

\* FromIterator<(Sysno, T)> for SysnoMap
SysnoMap_from_iter(pairs) == SysnoMap_extend(SysnoMap_new, pairs)

\* SysnoMap::init_all: SysnoSet::all() is iterated and every syscall paired
\* with a clone of the default, a value of its own with the default's
\* content; the pairs are collected.
SysnoMap_init_all(default) ==
    LET all == for_loop(SysnoSet_all, SysnoSetIter_new(SysnoSet_all), <<>>)
        pairs == [n \in DOMAIN all.visited |->
                     <<all.visited[n], [id |-> n, val |-> default.val]>>]
    IN {[self |-> o.self, dropped |-> o.dropped, ub |-> o.ub,
         panicked |-> all.panicked, pairs |-> pairs] :
            o \in SysnoMap_from_iter(pairs)}

\* The sequences of (key, value) pairs an iterator hands over: every value
\* is one not inserted before.
Pairs(first, n) ==
    {[i \in 1..n |-> <<keys[i], [id |-> first + i - 1, val |-> 0]>>] :
        keys \in [1..n -> Range(ALL)]}

\* What the calls below record: the map and the bookkeeping afterwards.
Built(op, pairs, default, o) ==
    /\ map' = o.self
    /\ entries' = [k \in DOMAIN entries |->
                      IF \E i \in DOMAIN pairs : pairs[i][1] = k
                      THEN <<pairs[CHOOSE i \in DOMAIN pairs :
                                     /\ pairs[i][1] = k
                                     /\ \A j \in DOMAIN pairs :
                                            pairs[j][1] = k => j <= i][2]>>
                      ELSE entries[k]]
    /\ ledger' = Dispose([ledger EXCEPT !.inserted = @ + Len(pairs)], o.dropped)
    /\ map_op' = [op |-> op, k |-> -1, pairs |-> pairs, d |-> default,
                  dropped |-> o.dropped,
                  ub |-> o.ub, panicked |-> FALSE, pre |-> entries,
                  cnt0 |-> SysnoMap_count(map)]
    /\ UNCHANGED <<ALL, errnoVars, sysnoVars, setVars, algebraVars, trapVars,
                   map_iter>>

\* let map = SysnoMap::from_iter(pairs);
MapFromIter(pairs) ==
    /\ map_op.op = "new"
    /\ \E o \in SysnoMap_from_iter(pairs) : Built("from_iter", pairs, <<>>, o)

\* map.extend(pairs)
MapExtend(pairs) ==
    /\ MapUsable
    /\ ledger.inserted + Len(pairs) <= MaxInserts
    /\ \E o \in SysnoMap_extend(map, pairs) : Built("extend", pairs, <<>>, o)

\* let map = SysnoMap::init_all(&default);
MapInitAll(default) ==
    /\ map_op.op = "new"
    /\ Sysno_count <= MaxInserts
    /\ \E o \in SysnoMap_init_all(default) :
          /\ ~o.panicked
          /\ Built("init_all", o.pairs, <<default>>, o)

NextBuild ==
    \/ \E n \in 0..MaxInserts : \E pairs \in Pairs(1, n) : MapFromIter(pairs)
    \/ \E n \in 0..MaxInserts :
          \E pairs \in Pairs(ledger.inserted + 1, n) : MapExtend(pairs)
    \/ \E default \in {[id |-> 0, val |-> 0], [id |-> 0, val |-> 1]} :
          MapInitAll(default)

SpecBuild == InitMap /\ [][NextBuild]_vars

\* The value the i-th pair supersedes, if any: that of the latest earlier
\* pair with the same key, else the one the key had before the call.
Prior(pre, pairs, i) ==
    LET earlier == {j \in 1..(i - 1) : pairs[j][1] = pairs[i][1]}
    IN IF earlier = {} THEN pre[pairs[i][1]]
       ELSE <<pairs[CHOOSE j \in earlier : \A h \in earlier : h <= j][2]>>

RECURSIVE Superseded(_, _, _)
Superseded(pre, pairs, i) ==
    IF i > Len(pairs) THEN <<>>
    ELSE Prior(pre, pairs, i) \o Superseded(pre, pairs, i + 1)

\* C30: a SysnoMap built or extended from a sequence of pairs that repeats a
\* key holds, for that key, the value of its last occurrence; each value
\* superseded on the way is dropped once, when it is overwritten; count() is
\* the number of distinct keys; init_all(&d) makes every valid syscall live
\* with a clone of d.
C30_LastOccurrenceWins ==
    map_op.op \in {"from_iter", "extend", "init_all"} =>
        LET given == {map_op.pairs[i][1] : i \in DOMAIN map_op.pairs}
            before == {k \in ValidIds : map_op.pre[k] # <<>>}
        IN /\ ~map_op.ub
           /\ \A i \in DOMAIN map_op.pairs :
                 (\A j \in DOMAIN map_op.pairs :
                     map_op.pairs[j][1] = map_op.pairs[i][1] => j <= i)
                 => SysnoMap_get(map, map_op.pairs[i][1])
                       = {[ret |-> <<map_op.pairs[i][2]>>, ub |-> FALSE]}
           /\ \A k \in ValidIds \ given :
                 SysnoMap_get(map, k) = {[ret |-> map_op.pre[k], ub |-> FALSE]}
           /\ map_op.dropped = Superseded(map_op.pre, map_op.pairs, 1)
           /\ \A t \in 1..MaxInserts :
                 ledger.disposed[t] <= 1
           /\ \A t \in 1..ledger.inserted :
                 ledger.disposed[t]
                    + Cardinality({k \in LiveSlots : Slot(k).val.id = t}) = 1
           /\ SysnoMap_count(map) = Cardinality(given \cup before)
           /\ map_op.op = "from_iter" =>
                 SysnoMap_count(map) = Cardinality(given)
           /\ map_op.op = "init_all" =>
                 /\ \A k \in ValidIds :
                       /\ SysnoMap_contains_key(map, k)
                       /\ \E o \in SysnoMap_get(map, k) :
                             o.ret # <<>> /\ o.ret[1].val = map_op.d[1].val
                 /\ \A k, j \in ValidIds :
                       k # j => SysnoMap_get(map, k) # SysnoMap_get(map, j)
                 /\ SysnoMap_count(map) = Sysno_count
                 /\ map_op.dropped = <<>>

\* A map was built from three pairs, the first and the last for the same
\* key, the second for a key of the other word of is_set.
C30_Witness ==
    /\ map_op.op = "from_iter"
    /\ Len(map_op.pairs) = 3
    /\ map_op.pairs[1][1] = map_op.pairs[3][1]
    /\ get_idx_mask(map_op.pairs[2][1])[1] # get_idx_mask(map_op.pairs[1][1])[1]
    /\ map_op.dropped = <<map_op.pairs[1][2]>>
    /\ SysnoMap_count(map) = 2

-----------------------------------------------------------------------------
(* syscall0 .. syscall6 and syscall (src/src/lib.rs)                       *)
(*                                                                         *)
(* The kernel is the environment of a wrapper: it answers the j-th trap of *)
(* a run with a word that may depend on j and on the registers of the      *)
(* trap.  A wrapper is the record of the traps it issues, in order, and of *)
(* what it returns.                                                        *)

\* The errno of an interrupted call.
EINTR == 4

\* The words a kernel answers with: two successes, -EINTR, and the two words
\* at the edge of the errno window.
Replies == {UsizeOfNat(0), UsizeOfNat(6), UsizeOfInt(-EINTR),
            UsizeOfInt(1 - MAX_ERRNO), UsizeOfInt(-MAX_ERRNO)}

\* The kernels: one that answers the first and the second trap with given
\* words, and, for each argument register, one that answers with the word it
\* finds there.
Kernels ==
    [kind : {"words"}, words : [1..2 -> Replies]] \cup
    [kind : {"echo"}, i : 1..6]

\* The argument words.
ArgWords == {UsizeOfNat(64), UsizeOfInt(-100)}

\* The word the kernel puts into the result register for the j-th trap.
KernelReply(kern, j, trap) ==
    IF kern.kind = "words" THEN kern.words[j]
    ELSE IF kern.i <= Len(trap.args) THEN trap.args[kern.i]
    ELSE UsizeOfNat(0)

\* raw::syscall0 .. raw::syscall6: one trap instruction with the number and
\* the arguments in their registers; the result register is returned.
\* `issued` counts the traps the wrapper has issued before.
raw_syscall(n, args, kern, issued) ==
    LET trap == [n |-> n, args |-> args]
    IN [trap |-> trap, ret |-> KernelReply(kern, issued + 1, trap)]

\* `nr as usize`
UsizeOfSysno(nr) == UsizeOfNat(Sysno_id(nr))

\* syscall0 .. syscall6: [traps, ret]
syscall0(nr, kern) ==
    LET r == raw_syscall(UsizeOfSysno(nr), <<>>, kern, 0)
    IN [traps |-> <<r.trap>>, ret |-> from_ret(r.ret)]

\* syscall1 issuing the trap again when the kernel answers -EINTR.
syscall1_retry(nr, a1, kern) ==
    LET r == raw_syscall(UsizeOfSysno(nr), <<a1>>, kern, 0)
        again == raw_syscall(UsizeOfSysno(nr), <<a1>>, kern, 1)
    IN IF from_ret(r.ret) = Err(Errno_new(EINTR))
       THEN [traps |-> <<r.trap, again.trap>>, ret |-> from_ret(again.ret)]
       ELSE [traps |-> <<r.trap>>, ret |-> from_ret(r.ret)]

syscall1(nr, a1, kern) ==
    LET r == raw_syscall(UsizeOfSysno(nr), <<a1>>, kern, 0)
    IN [traps |-> <<r.trap>>, ret |-> from_ret(r.ret)]

syscall2(nr, a1, a2, kern) ==
    LET r == raw_syscall(UsizeOfSysno(nr), <<a1, a2>>, kern, 0)
    IN [traps |-> <<r.trap>>, ret |-> from_ret(r.ret)]

syscall3(nr, a1, a2, a3, kern) ==
    LET r == raw_syscall(UsizeOfSysno(nr), <<a1, a2, a3>>, kern, 0)
    IN [traps |-> <<r.trap>>, ret |-> from_ret(r.ret)]

syscall4(nr, a1, a2, a3, a4, kern) ==
    LET r == raw_syscall(UsizeOfSysno(nr), <<a1, a2, a3, a4>>, kern, 0)
    IN [traps |-> <<r.trap>>, ret |-> from_ret(r.ret)]

syscall5(nr, a1, a2, a3, a4, a5, kern) ==
    LET r == raw_syscall(UsizeOfSysno(nr), <<a1, a2, a3, a4, a5>>, kern, 0)
    IN [traps |-> <<r.trap>>, ret |-> from_ret(r.ret)]

syscall6(nr, a1, a2, a3, a4, a5, a6, kern) ==
    LET r == raw_syscall(UsizeOfSysno(nr), <<a1, a2, a3, a4, a5, a6>>, kern, 0)
    IN [traps |-> <<r.trap>>, ret |-> from_ret(r.ret)]

\* SyscallArgs::new
SyscallArgs_new(a0, a1, a2, a3, a4, a5) ==
    [arg0 |-> a0, arg1 |-> a1, arg2 |-> a2, arg3 |-> a3, arg4 |-> a4,
     arg5 |-> a5]

\* syscall passing arg3 and arg4 in each other's place.
syscall_swapped(nr, args, kern) ==
    syscall6(nr, args.arg0, args.arg1, args.arg2, args.arg4, args.arg3,
             args.arg5, kern)

\* syscall
syscall(nr, args, kern) ==
    syscall6(nr, args.arg0, args.arg1, args.arg2, args.arg3, args.arg4,
             args.arg5, kern)

\* What sys records for a call of a wrapper.
Called(op, nr, args, r) == [op |-> op, nr |-> nr, args |-> args, ret |-> r.ret]

\* syscall0(nr)
Call0(nr) ==
    /\ sys = CallIdle
    /\ LET r == syscall0(nr, kernel)
       IN /\ traps' = traps \o r.traps
          /\ sys' = Called("syscall0", nr, <<>>, r)
    /\ UNCHANGED <<ALL, errnoVars, sysnoVars, setVars, algebraVars, mapVars,
                   kernel>>

\* syscall1(nr, a1)
Call1(nr, a1) ==
    /\ sys = CallIdle
    /\ LET r == syscall1(nr, a1, kernel)
       IN /\ traps' = traps \o r.traps
          /\ sys' = Called("syscall1", nr, <<a1>>, r)
    /\ UNCHANGED <<ALL, errnoVars, sysnoVars, setVars, algebraVars, mapVars,
                   kernel>>

\* syscall2(nr, a1, a2)
Call2(nr, a1, a2) ==
    /\ sys = CallIdle
    /\ LET r == syscall2(nr, a1, a2, kernel)
       IN /\ traps' = traps \o r.traps
          /\ sys' = Called("syscall2", nr, <<a1, a2>>, r)
    /\ UNCHANGED <<ALL, errnoVars, sysnoVars, setVars, algebraVars, mapVars,
                   kernel>>

\* syscall3(nr, a1, a2, a3)
Call3(nr, a1, a2, a3) ==
    /\ sys = CallIdle
    /\ LET r == syscall3(nr, a1, a2, a3, kernel)
       IN /\ traps' = traps \o r.traps
          /\ sys' = Called("syscall3", nr, <<a1, a2, a3>>, r)
    /\ UNCHANGED <<ALL, errnoVars, sysnoVars, setVars, algebraVars, mapVars,
                   kernel>>

\* syscall4(nr, a1, a2, a3, a4)
Call4(nr, a1, a2, a3, a4) ==
    /\ sys = CallIdle
    /\ LET r == syscall4(nr, a1, a2, a3, a4, kernel)
       IN /\ traps' = traps \o r.traps
          /\ sys' = Called("syscall4", nr, <<a1, a2, a3, a4>>, r)
    /\ UNCHANGED <<ALL, errnoVars, sysnoVars, setVars, algebraVars, mapVars,
                   kernel>>

\* syscall5(nr, a1, a2, a3, a4, a5)
Call5(nr, a1, a2, a3, a4, a5) ==
    /\ sys = CallIdle
    /\ LET r == syscall5(nr, a1, a2, a3, a4, a5, kernel)
       IN /\ traps' = traps \o r.traps
          /\ sys' = Called("syscall5", nr, <<a1, a2, a3, a4, a5>>, r)
    /\ UNCHANGED <<ALL, errnoVars, sysnoVars, setVars, algebraVars, mapVars,
                   kernel>>

\* syscall6(nr, a1, a2, a3, a4, a5, a6)
Call6(nr, a1, a2, a3, a4, a5, a6) ==
    /\ sys = CallIdle
    /\ LET r == syscall6(nr, a1, a2, a3, a4, a5, a6, kernel)
       IN /\ traps' = traps \o r.traps
          /\ sys' = Called("syscall6", nr, <<a1, a2, a3, a4, a5, a6>>, r)
    /\ UNCHANGED <<ALL, errnoVars, sysnoVars, setVars, algebraVars, mapVars,
                   kernel>>

\* syscall(nr, &SyscallArgs::new(a0, a1, a2, a3, a4, a5))
CallSyscall(nr, a0, a1, a2, a3, a4, a5) ==
    /\ sys = CallIdle
    /\ LET args == SyscallArgs_new(a0, a1, a2, a3, a4, a5)
           r == syscall(nr, args, kernel)
       IN /\ traps' = traps \o r.traps
          /\ sys' = Called("syscall", nr, args, r)
    /\ UNCHANGED <<ALL, errnoVars, sysnoVars, setVars, algebraVars, mapVars,
                   kernel>>

\* The tables of the runs of the wrappers: those with one syscall.
CallTables == {t \in Tables : Len(t) = 1}

\* No wrapper has been called and no trap issued; the kernel is any of the
\* kernels.
InitCall ==
    /\ ALL \in CallTables
    /\ ErrnoIdle
    /\ SysnoIdle
    /\ SetIdle
    /\ AlgebraIdle
    /\ MapIdle
    /\ kernel \in Kernels
    /\ traps = <<>>
    /\ sys = CallIdle

NextCall ==
    \/ \E nr \in Range(ALL) : Call0(nr)
    \/ \E nr \in Range(ALL), a1 \in ArgWords : Call1(nr, a1)
    \/ \E nr \in Range(ALL), a1, a2 \in ArgWords : Call2(nr, a1, a2)
    \/ \E nr \in Range(ALL), a1, a2, a3 \in ArgWords : Call3(nr, a1, a2, a3)
    \/ \E nr \in Range(ALL), a1, a2, a3, a4 \in ArgWords :
          Call4(nr, a1, a2, a3, a4)
    \/ \E nr \in Range(ALL), a1, a2, a3, a4, a5 \in ArgWords :
          Call5(nr, a1, a2, a3, a4, a5)
    \/ \E nr \in Range(ALL), a1, a2, a3, a4, a5, a6 \in ArgWords :
          Call6(nr, a1, a2, a3, a4, a5, a6)
    \/ \E nr \in Range(ALL), a0, a1, a2, a3, a4, a5 \in ArgWords :
          CallSyscall(nr, a0, a1, a2, a3, a4, a5)

SpecCall == InitCall /\ [][NextCall]_vars

\* C19: syscall(nr, &args) returns exactly what syscall6(nr, args.arg0,
\* args.arg1, args.arg2, args.arg3, args.arg4, args.arg5) returns: the six
\* slots are forwarded in positional order, none swapped, dropped or altered.
C19_SyscallForwardsToSyscall6 ==
    sys.op = "syscall" =>
        LET direct == syscall6(sys.nr, sys.args.arg0, sys.args.arg1,
                               sys.args.arg2, sys.args.arg3, sys.args.arg4,
                               sys.args.arg5, kernel)
        IN /\ sys.ret = direct.ret
           /\ traps = direct.traps
           /\ traps = <<[n |-> UsizeOfSysno(sys.nr),
                         args |-> <<sys.args.arg0, sys.args.arg1,
                                    sys.args.arg2, sys.args.arg3,
                                    sys.args.arg4, sys.args.arg5>>]>>

\* syscall was called with different words in arg3 and arg4 on a kernel that
\* answers with its fourth argument.
C19_Witness ==
    /\ sys.op = "syscall"
    /\ sys.args.arg3 # sys.args.arg4
    /\ sys.args.arg0 # sys.args.arg5
    /\ kernel.kind = "echo" /\ kernel.i = 4
    /\ sys.ret = from_ret(sys.args.arg3)

\* The names of syscall0 .. syscall6.
Wrappers == {"syscall0", "syscall1", "syscall2", "syscall3", "syscall4",
             "syscall5", "syscall6"}

\* C20: each call of syscall0 .. syscall6 issues the raw trap exactly once
\* and returns Errno::from_ret of that single raw result; when the result is
\* an error (EINTR included) the call returns Err at once and never issues
\* the trap again.
C20_OneTrapPerCall ==
    /\ sys = CallIdle => traps = <<>>
    /\ sys.op \in Wrappers =>
          /\ Len(traps) = 1
          /\ traps[1] = [n |-> UsizeOfSysno(sys.nr), args |-> sys.args]
          /\ sys.ret = from_ret(KernelReply(kernel, 1, traps[1]))
          /\ KernelReply(kernel, 1, traps[1]) = UsizeOfInt(-EINTR) =>
                sys.ret = Err(Errno_new(EINTR))

\* syscall1 returned Err(EINTR) from a kernel that would have answered a
\* second trap with a success.
C20_Witness ==
    /\ sys.op = "syscall1"
    /\ kernel.kind = "words"
    /\ kernel.words[1] = UsizeOfInt(-EINTR)
    /\ kernel.words[2] = UsizeOfNat(6)
    /\ sys.ret = Err(Errno_new(EINTR))
    /\ Len(traps) = 1

-----------------------------------------------------------------------------
(* SyscallArgs (src/src/args6.rs)                                          *)

\* The word 0.
Zero == UsizeOfNat(0)

\* The words an argument array is made of.
ArrayWords == ArgWords \cup {Zero}

\* The arrays [usize; N] for N in 0 .. 6.
Arrays == UNION {[1..n -> ArrayWords] : n \in 0..6}

\* From<&[usize; N]> filling the unused slots in front of the given words.
SyscallArgs_from_right_aligned(args) ==
    LET at(i) == IF i > 6 - Len(args) THEN args[i - (6 - Len(args))] ELSE Zero
    IN SyscallArgs_new(at(1), at(2), at(3), at(4), at(5), at(6))

\* From<&[usize; N]> for SyscallArgs, one impl for each N.
SyscallArgs_from(args) ==
    CASE Len(args) = 6 ->
           [arg0 |-> args[1], arg1 |-> args[2], arg2 |-> args[3],
            arg3 |-> args[4], arg4 |-> args[5], arg5 |-> args[6]]
      [] Len(args) = 5 ->
           [arg0 |-> args[1], arg1 |-> args[2], arg2 |-> args[3],
            arg3 |-> args[4], arg4 |-> args[5], arg5 |-> Zero]
      [] Len(args) = 4 ->
           [arg0 |-> args[1], arg1 |-> args[2], arg2 |-> args[3],
            arg3 |-> args[4], arg4 |-> Zero, arg5 |-> Zero]
      [] Len(args) = 3 ->
           [arg0 |-> args[1], arg1 |-> args[2], arg2 |-> args[3],
            arg3 |-> Zero, arg4 |-> Zero, arg5 |-> Zero]
      [] Len(args) = 2 ->
           [arg0 |-> args[1], arg1 |-> args[2], arg2 |-> Zero,
            arg3 |-> Zero, arg4 |-> Zero, arg5 |-> Zero]
      [] Len(args) = 1 ->
           [arg0 |-> args[1], arg1 |-> Zero, arg2 |-> Zero,
            arg3 |-> Zero, arg4 |-> Zero, arg5 |-> Zero]
      [] Len(args) = 0 ->
           [arg0 |-> Zero, arg1 |-> Zero, arg2 |-> Zero,
            arg3 |-> Zero, arg4 |-> Zero, arg5 |-> Zero]

\* syscall_args!(..), one arm for each number of arguments.
syscall_args(args) ==
    CASE Len(args) = 6 ->
           SyscallArgs_new(args[1], args[2], args[3], args[4], args[5], args[6])
      [] Len(args) = 5 ->
           SyscallArgs_new(args[1], args[2], args[3], args[4], args[5], Zero)
      [] Len(args) = 4 ->
           SyscallArgs_new(args[1], args[2], args[3], args[4], Zero, Zero)
      [] Len(args) = 3 ->
           SyscallArgs_new(args[1], args[2], args[3], Zero, Zero, Zero)
      [] Len(args) = 2 ->
           SyscallArgs_new(args[1], args[2], Zero, Zero, Zero, Zero)
      [] Len(args) = 1 ->
           SyscallArgs_new(args[1], Zero, Zero, Zero, Zero, Zero)
      [] Len(args) = 0 ->
           SyscallArgs_new(Zero, Zero, Zero, Zero, Zero, Zero)

\* SyscallArgs::from(&args)
ArgsFrom(args) ==
    /\ sys = CallIdle
    /\ sys' = [op |-> "from", words |-> args, bundle |-> SyscallArgs_from(args)]
    /\ UNCHANGED <<ALL, errnoVars, sysnoVars, setVars, algebraVars, mapVars,
                   kernel, traps>>

\* syscall_args!(args..)
ArgsMacro(args) ==
    /\ sys = CallIdle
    /\ sys' = [op |-> "syscall_args", words |-> args,
               bundle |-> syscall_args(args)]
    /\ UNCHANGED <<ALL, errnoVars, sysnoVars, setVars, algebraVars, mapVars,
                   kernel, traps>>

\* No bundle has been built.
InitArgs ==
    /\ ALL = <<0>>
    /\ ErrnoIdle
    /\ SysnoIdle
    /\ SetIdle
    /\ AlgebraIdle
    /\ MapIdle
    /\ TrapIdle

NextArgs ==
    \/ \E args \in Arrays : ArgsFrom(args)
    \/ \E args \in Arrays : ArgsMacro(args)

SpecArgs == InitArgs /\ [][NextArgs]_vars

\* The six slots of a bundle, in order.
SlotsOf(bundle) ==
    <<bundle.arg0, bundle.arg1, bundle.arg2, bundle.arg3, bundle.arg4,
      bundle.arg5>>

\* C21: a SyscallArgs built from an array of N words (0 <= N <= 6), or by
\* syscall_args! with N arguments, has arg0 .. arg(N-1) equal to the given
\* words in order and every remaining slot equal to 0.
C21_BundleZeroFilled ==
    sys.op \in {"from", "syscall_args"} =>
        \A i \in 1..6 :
            SlotsOf(sys.bundle)[i] =
                IF i <= Len(sys.words) THEN sys.words[i] ELSE Zero

\* A bundle was built from an array of three different words, none of them 0
\* in the first place.
C21_Witness ==
    /\ sys.op = "from"
    /\ Len(sys.words) = 3
    /\ sys.words[1] # Zero /\ sys.words[1] # sys.words[2]
    /\ sys.words[3] # Zero
    /\ sys.bundle.arg5 = Zero /\ sys.bundle.arg0 = sys.words[1]

(***************************************************************************)
(* The MIPS trampolines (src/src/syscall/mips.rs).  MIPS is a 32-bit       *)
(* target: a usize is two limbs.  The kernel answers in two registers: $2  *)
(* (v0) holds the result and $7 (a3) is non-zero when the call failed, in  *)
(* which case $2 holds the positive error code.                            *)
(***************************************************************************)
Zero32 == <<0, 0>>

\* usize::wrapping_neg: the two's-complement negation, limb by limb.
wrapping_neg(word) ==
    [i \in DOMAIN word |->
        IF \A j \in (i + 1)..Len(word) : word[j] = 0
        THEN (LimbBase - word[i]) % LimbBase
        ELSE LimbMax - word[i]]

\* What the kernel may leave in $2 and in $7.
ResultWords ==
    {Zero32, <<0, 1>>, <<0, EINTR>>, <<0, MAX_ERRNO - 1>>, <<0, MAX_ERRNO>>,
     <<LimbBase \div 2, 0>>, <<LimbMax, LimbBase - MAX_ERRNO>>,
     <<LimbMax, LimbBase - MAX_ERRNO + 1>>, <<LimbMax, LimbMax>>}

ErrorFlags == {Zero32, <<0, 1>>, <<LimbMax, LimbMax>>}

MipsKernels == [kind : {"mips"}, v0 : ResultWords, a3 : ErrorFlags]

MipsArgWords == {<<0, 64>>, <<LimbMax, LimbBase - 100>>}

MipsArgs == UNION {[1..n -> MipsArgWords] : n \in 0..6}

mips_syscall_no_neg(n, args, kern) ==
    [trap |-> [v0 |-> n,
               a |-> SubSeq(args, 1, IF Len(args) < 4 THEN Len(args) ELSE 4),
               stack |-> SubSeq(args, 5, Len(args))],
     ret |-> kern.v0]

\* syscall0 .. syscall6: $2 carries n in and the result out, $4 .. $7 carry
\* arg1 .. arg4, arg5 and arg6 are stored at 16($sp) and 20($sp); $7 comes
\* back as the error flag.
mips_syscall(n, args, kern) ==
    LET out == kern.v0
        err == kern.a3
    IN [trap |-> [v0 |-> n,
                  a |-> SubSeq(args, 1, IF Len(args) < 4 THEN Len(args) ELSE 4),
                  stack |-> SubSeq(args, 5, Len(args))],
        ret |-> IF err = Zero32 THEN out ELSE wrapping_neg(out)]

\* syscallN(nr, a1, .., aN) of the uniform API on MIPS.
MipsCall(nr, args) ==
    /\ sys = CallIdle
    /\ kernel.kind = "mips"
    /\ LET r == mips_syscall(<<0, nr>>, args, kernel)
       IN /\ traps' = <<r.trap>>
          /\ sys' = [op |-> "mips", nr |-> nr, args |-> args,
                     raw |-> r.ret, ret |-> from_ret(r.ret)]
    /\ UNCHANGED <<ALL, errnoVars, sysnoVars, setVars, algebraVars, mapVars,
                   kernel>>

InitMips ==
    /\ ALL \in CallTables
    /\ ErrnoIdle /\ SysnoIdle /\ SetIdle /\ AlgebraIdle /\ MapIdle
    /\ kernel \in MipsKernels
    /\ traps = <<>>
    /\ sys = CallIdle

NextMips == \E nr \in Range(ALL), args \in MipsArgs : MipsCall(nr, args)

SpecMips == InitMips /\ [][NextMips]_vars

\* x + y = 0 modulo 2^32.
IsNegation(x, y) ==
    /\ (x[2] + y[2]) % LimbBase = 0
    /\ (x[1] + y[1] + (x[2] + y[2]) \div LimbBase) % LimbBase = 0

\* C23: a MIPS trampoline returns the result register unchanged when the
\* error register is 0 and its two's-complement negation otherwise, so a
\* failure with error code e in 1 .. 4095 reaches the caller as
\* Err(Errno::new(e)).
C23_MipsErrorRegister ==
    sys.op = "mips" =>
        /\ kernel.a3 = Zero32 => sys.raw = kernel.v0
        /\ kernel.a3 # Zero32 => IsNegation(sys.raw, kernel.v0)
        /\ (/\ kernel.a3 # Zero32
            /\ kernel.v0[1] = 0
            /\ kernel.v0[2] \in 1..(MAX_ERRNO - 1))
               => sys.ret = Err(Errno_new(kernel.v0[2]))

C23_Witness ==
    /\ sys.op = "mips"
    /\ kernel.a3 = <<LimbMax, LimbMax>>
    /\ kernel.v0 = <<0, MAX_ERRNO - 1>>
    /\ sys.raw = <<LimbMax, LimbBase - MAX_ERRNO + 1>>
    /\ Len(sys.args) = 6

(***************************************************************************)
(* The x86 trampoline with six arguments (src/src/syscall/x86.rs), one     *)
(* instruction per step.  `sys` holds the processor while the trampoline   *)
(* runs: its registers, the memory it touches (the stack below the entry   *)
(* stack pointer and the array [arg4, arg6, n] in the caller's frame) and  *)
(* the position in the instruction list.  Words are not computed with, so  *)
(* they are small integers; addresses are byte addresses.                  *)
(***************************************************************************)
Push(r) == [op |-> "push", r |-> r]
Pop(r) == [op |-> "pop", r |-> r]
Load(dst, off) == [op |-> "mov", dst |-> dst, base |-> "eax", off |-> off]
Int80 == [op |-> "int 0x80"]

x86_syscall6_restore_swapped ==
    <<Push("ebp"), Push("esi"),
      Load("esi", 0), Load("ebp", 4), Load("eax", 8),
      Int80,
      Pop("ebp"), Pop("esi")>>

\* The asm! template of syscall6.
x86_syscall6 ==
    <<Push("ebp"), Push("esi"),
      Load("esi", 0), Load("ebp", 4), Load("eax", 8),
      Int80,
      Pop("esi"), Pop("ebp")>>

\* One instruction: the registers and the memory after it.  The kernel
\* leaves its reply in eax and every other register as it found it.
Exec(ins, cpu, reply) ==
    CASE ins.op = "push" ->
           [cpu EXCEPT !.regs.esp = @ - 4,
                       !.mem[cpu.regs.esp - 4] = cpu.regs[ins.r]]
      [] ins.op = "pop" ->
           [cpu EXCEPT !.regs[ins.r] = cpu.mem[cpu.regs.esp],
                       !.regs.esp = @ + 4]
      [] ins.op = "mov" ->
           [cpu EXCEPT !.regs[ins.dst] = cpu.mem[cpu.regs[ins.base] + ins.off]]
      [] ins.op = "int 0x80" ->
           [cpu EXCEPT !.regs.eax = reply]

X86Words == {64, 100}

X86Kernels == [kind : {"int 0x80"}, eax : {0, -EINTR}]

\* Entry into syscall6(n, arg1 .. arg6): the operands are placed as the
\* asm! block asks (eax points to the array, ebx, ecx, edx, edi hold arg1,
\* arg2, arg3, arg5); esi, ebp and esp are the caller's.
X86Call(nr, args, esi, ptr) ==
    /\ sys = CallIdle
    /\ kernel.kind = "int 0x80"
    /\ LET esp == 64
           frame == {esp + 4 * k : k \in -2..3}
       IN sys' = [op |-> "x86", pc |-> 1, n |-> nr, args |-> args,
                  entry |-> [esi |-> esi, ebp |-> esi + 1, esp |-> esp],
                  regs |-> [eax |-> ptr + esp, ebx |-> args[1],
                            ecx |-> args[2], edx |-> args[3],
                            edi |-> args[5], esi |-> esi, ebp |-> esi + 1,
                            esp |-> esp],
                  mem |-> [a \in frame |->
                             IF a = ptr + esp THEN args[4]
                             ELSE IF a = ptr + esp + 4 THEN args[6]
                             ELSE IF a = ptr + esp + 8 THEN nr
                             ELSE 0]]
    /\ UNCHANGED <<ALL, errnoVars, sysnoVars, setVars, algebraVars, mapVars,
                   kernel, traps>>

\* The next instruction of the template; the trap is logged with the
\* registers the kernel sees.
X86Step ==
    /\ sys.op = "x86"
    /\ sys.pc <= Len(x86_syscall6)
    /\ LET ins == x86_syscall6[sys.pc]
       IN /\ sys' = [Exec(ins, sys, kernel.eax) EXCEPT !.pc = @ + 1]
          /\ traps' = IF ins.op = "int 0x80"
                      THEN Append(traps, sys.regs)
                      ELSE traps
    /\ UNCHANGED <<ALL, errnoVars, sysnoVars, setVars, algebraVars, mapVars,
                   kernel>>

InitX86 ==
    /\ ALL \in CallTables
    /\ ErrnoIdle /\ SysnoIdle /\ SetIdle /\ AlgebraIdle /\ MapIdle
    /\ kernel \in X86Kernels
    /\ traps = <<>>
    /\ sys = CallIdle

NextX86 ==
    \/ \E nr \in Range(ALL), args \in [1..6 -> X86Words],
          esi \in {7, 8}, ptr \in {0, 4} : X86Call(nr, args, esi, ptr)
    \/ X86Step

SpecX86 == InitX86 /\ [][NextX86]_vars

\* C24: when `int 0x80` executes, eax holds the syscall number and ebx, ecx,
\* edx, esi, edi, ebp hold arg1 .. arg6; when the trampoline has finished,
\* esi, ebp and the stack pointer hold the values they had on entry.
C24_X86Registers ==
    sys.op = "x86" =>
        /\ \A i \in 1..Len(traps) :
               /\ traps[i].eax = sys.n
               /\ <<traps[i].ebx, traps[i].ecx, traps[i].edx,
                    traps[i].esi, traps[i].edi, traps[i].ebp>> = sys.args
        /\ sys.pc > Len(x86_syscall6) =>
               /\ Len(traps) = 1
               /\ sys.regs.esi = sys.entry.esi
               /\ sys.regs.ebp = sys.entry.ebp
               /\ sys.regs.esp = sys.entry.esp

C24_Witness ==
    /\ sys.op = "x86"
    /\ sys.pc > Len(x86_syscall6)
    /\ sys.args[4] # sys.args[6]
    /\ sys.regs.eax = -EINTR
    /\ traps # <<>>

(***************************************************************************)
(* SyscallRet (src/src/args.rs) and syscall_ret (src/src/helper.rs).  An   *)
(* i64 is its two's-complement word of four limbs.                         *)
(***************************************************************************)
I64Min == <<LimbBase \div 2, 0, 0, 0>>

I64s ==
    {UsizeOfInt(v) : v \in {0, 1, 2, 22, MAX_ERRNO - 1, MAX_ERRNO, MAX_ERRNO + 1,
                            -1, -2, -22, 1 - MAX_ERRNO, -MAX_ERRNO,
                            -MAX_ERRNO - 1, 2147483647, -2147483647}}
        \cup {<<0, 32767, 4660, 22136>>, <<0, 0, 1, 0>>,
              <<LimbBase \div 2 - 1, LimbMax, LimbMax, LimbMax>>, I64Min}

Results == {Ok(v) : v \in I64s} \cup {Err(e) : e \in I64s}

\* -x for an i64: overflows for i64::MIN, which panics in a build with
\* overflow checks and wraps in one without.
neg(x) ==
    IF x = I64Min THEN {Panicked, Returned(x)}
    ELSE {Returned(wrapping_neg(x))}

syscall_ret_keep_sign(word) ==
    IF word = UsizeOfInt(-MAX_ERRNO) \/ UsizeGt(word, UsizeOfInt(-MAX_ERRNO))
    THEN {Returned(Err(word))}
    ELSE {Returned(Ok(word))}

\* helper::syscall_ret
syscall_ret(word) ==
    IF word = UsizeOfInt(-MAX_ERRNO) \/ UsizeGt(word, UsizeOfInt(-MAX_ERRNO))
    THEN {IF o.panic THEN Panicked ELSE Returned(Err(o.val)) : o \in neg(word)}
    ELSE {Returned(Ok(word))}

\* From<i64> for SyscallRet
SyscallRet_from_i64(retval) == [retval |-> retval]

\* From<Result<i64, i64>> for SyscallRet
SyscallRet_from(res) ==
    IF res.ok THEN {Returned([retval |-> res.val])}
    ELSE {IF o.panic THEN Panicked ELSE Returned([retval |-> o.val])
             : o \in neg(res.err)}

\* From<SyscallRet> for Result<i64, i64>
Result_from(res) == syscall_ret(res.retval)

\* let r: SyscallRet = res.into();
RetFrom(res) ==
    /\ sys = CallIdle
    /\ \E o \in SyscallRet_from(res) :
           sys' = [op |-> "SyscallRet::from", res |-> res, out |-> o]
    /\ UNCHANGED <<ALL, errnoVars, sysnoVars, setVars, algebraVars, mapVars,
                   kernel, traps>>

\* let r = SyscallRet::from(retval);
RetFromI64(retval) ==
    /\ sys = CallIdle
    /\ sys' = [op |-> "SyscallRet::from", res |-> <<>>,
               out |-> Returned(SyscallRet_from_i64(retval))]
    /\ UNCHANGED <<ALL, errnoVars, sysnoVars, setVars, algebraVars, mapVars,
                   kernel, traps>>

\* let back: Result<i64, i64> = r.into();
RetInto ==
    /\ sys.op = "SyscallRet::from"
    /\ ~sys.out.panic
    /\ \E o \in Result_from(sys.out.val) :
           sys' = [op |-> "Result::from", res |-> sys.res,
                   retval |-> sys.out.val.retval, out |-> o]
    /\ UNCHANGED <<ALL, errnoVars, sysnoVars, setVars, algebraVars, mapVars,
                   kernel, traps>>

InitRet ==
    /\ ALL = <<0>>
    /\ ErrnoIdle /\ SysnoIdle /\ SetIdle /\ AlgebraIdle /\ MapIdle /\ TrapIdle

NextRet ==
    \/ \E res \in Results : RetFrom(res)
    \/ \E retval \in I64s : RetFromI64(retval)
    \/ RetInto

SpecRet == InitRet /\ [][NextRet]_vars

\* v lies in the signed window -4096 .. -1.
InWindow(v) ==
    /\ v[1] = LimbMax /\ v[2] = LimbMax /\ v[3] = LimbMax
    /\ v[4] >= LimbBase - MAX_ERRNO

\* 1 <= e <= 4095.
IsErrorCode(e) ==
    /\ e[1] = 0 /\ e[2] = 0 /\ e[3] = 0
    /\ e[4] \in 1..(MAX_ERRNO - 1)

\* C25: Result<i64, i64> -> SyscallRet -> Result<i64, i64> is the identity
\* for Ok(v) with v outside -4096 .. -1 and for Err(e) with 1 <= e <= 4095;
\* Ok(v) is stored as retval v and Err(e) as retval -e.
C25_RoundTrip ==
    /\ (sys.op = "SyscallRet::from" /\ sys.res # <<>>) =>
           /\ (sys.res.ok /\ ~InWindow(sys.res.val)) =>
                  sys.out = Returned([retval |-> sys.res.val])
           /\ (~sys.res.ok /\ IsErrorCode(sys.res.err)) =>
                  sys.out = Returned([retval |->
                      <<LimbMax, LimbMax, LimbMax, LimbBase - sys.res.err[4]>>])
    /\ (sys.op = "Result::from" /\ sys.res # <<>>) =>
           /\ (sys.res.ok /\ ~InWindow(sys.res.val)) =>
                  sys.out = Returned(sys.res)
           /\ (~sys.res.ok /\ IsErrorCode(sys.res.err)) =>
                  sys.out = Returned(sys.res)

C25_Witness ==
    /\ sys.op = "Result::from"
    /\ sys.res = Err(UsizeOfInt(MAX_ERRNO - 1))
    /\ sys.retval = UsizeOfInt(1 - MAX_ERRNO)
    /\ sys.out = Returned(sys.res)

=============================================================================
